---- MODULE Spec2Model ----
(***************************************************************************)
(* Model of the kernel part of the Intel performance monitor driver,       *)
(* kernel/arch/x86/perf_mon.cpp: the capability probe, the six entry       *)
(* points that run under perfmon_lock, the per-cpu start/stop/reset tasks  *)
(* and the PMI handler.                                                    *)
(*                                                                         *)
(* Representation.  A uint64_t that is used as a bit mask (control         *)
(* registers, PERFEVTSEL values, status words, flag words) is the set of   *)
(* its one-bits, so that a & ~b is a \ b and a | b is a \cup b.  A         *)
(* uint64_t that is used as a number (counter values, initial values) is   *)
(* a tuple of four 16-bit limbs, least significant first, with arithmetic  *)
(* modulo 2^64.  Addresses are byte addresses, NULL is 0.                  *)
(***************************************************************************)
EXTENDS Integers, Sequences, FiniteSets, TLC

\* ------------------------------------------------------------------ bounds

\* Number of cpus, arch_max_num_cpus().
NumCpus == 2
\* Length of the programmable counter arrays of the config and the state.
IPM_MAX_PROGRAMMABLE_COUNTERS == 2
\* Length of the fixed counter arrays of the config and the state.
IPM_MAX_FIXED_COUNTERS == 2
\* Number of counters the minimum buffer size allows for.
CPUPERF_MAX_COUNTERS == 4
\* PMIs handled between one start and the next.
MaxPmis == 2

Cpus == 0 .. (NumCpus - 1)
ProgSlots == 0 .. (IPM_MAX_PROGRAMMABLE_COUNTERS - 1)
FixedSlots == 0 .. (IPM_MAX_FIXED_COUNTERS - 1)

\* --------------------------------------------------- 64-bit numbers (limbs)

LimbBits == 16
Limb == 2 ^ LimbBits
Limbs == 1 .. 4

Min2(a, b) == IF a < b THEN a ELSE b
Max2(a, b) == IF a > b THEN a ELSE b

\* The uint64_t with value n, for 0 <= n < 2^31.
U64(n) == <<n % Limb, n \div Limb, 0, 0>>
U64Zero == <<0, 0, 0, 0>>
\* ~0ul
U64AllOnes == <<Limb - 1, Limb - 1, Limb - 1, Limb - 1>>

\* a < b, comparing from the most significant limb.
U64Lt(a, b) ==
    \E k \in Limbs : /\ a[k] < b[k]
                     /\ \A j \in Limbs : j > k => a[j] = b[j]
U64Le(a, b) == a = b \/ U64Lt(a, b)

\* a + b modulo 2^64.
U64Add(a, b) ==
    LET s1 == a[1] + b[1]
        s2 == a[2] + b[2] + (s1 \div Limb)
        s3 == a[3] + b[3] + (s2 \div Limb)
        s4 == a[4] + b[4] + (s3 \div Limb)
    IN  <<s1 % Limb, s2 % Limb, s3 % Limb, s4 % Limb>>

\* a - b modulo 2^64.
U64Sub(a, b) ==
    LET d1 == a[1] - b[1]
        d2 == a[2] - b[2] - (IF d1 < 0 THEN 1 ELSE 0)
        d3 == a[3] - b[3] - (IF d2 < 0 THEN 1 ELSE 0)
        d4 == a[4] - b[4] - (IF d3 < 0 THEN 1 ELSE 0)
    IN  <<d1 % Limb, d2 % Limb, d3 % Limb, d4 % Limb>>

\* (1ul << width) - 1 for width < 64, ~0ul for width = 64.
MaxCounterValue(width) ==
    IF width < 64
    THEN [k \in Limbs |->
            2 ^ Max2(0, Min2(LimbBits, width - LimbBits * (k - 1))) - 1]
    ELSE U64AllOnes

\* ------------------------------------------------------------ MSR addresses

IA32_PMC_FIRST == 193
IA32_PERFEVTSEL_FIRST == 390
IA32_FIXED_CTR_CTRL == 909
IA32_FIXED_CTR0 == 777
IA32_PERF_GLOBAL_CTRL == 911
IA32_PERF_GLOBAL_STATUS == 910
IA32_PERF_GLOBAL_OVF_CTRL == 912
IA32_PERF_GLOBAL_STATUS_RESET == 912
IA32_DEBUGCTL == 473

MINIMUM_PERFMON_VERSION == 4

\* ---------------------------------------------------------------- bit masks

IA32_PERF_GLOBAL_CTRL_PMC_EN_MASK(i) == {i}
IA32_PERF_GLOBAL_CTRL_FIXED_EN_MASK(i) == {32 + i}
IA32_FIXED_CTR_CTRL_EN_MASK(i) == {4 * i, 4 * i + 1}
IA32_FIXED_CTR_CTRL_ANY_MASK(i) == {4 * i + 2}
IA32_FIXED_CTR_CTRL_PMI_MASK(i) == {4 * i + 3}
IA32_PERF_GLOBAL_STATUS_PMC_OVF_MASK(i) == {i}
IA32_PERF_GLOBAL_STATUS_FIXED_OVF_MASK(i) == {32 + i}
IA32_PERF_GLOBAL_STATUS_CTR_FRZ_MASK == {59}
IA32_PERF_GLOBAL_STATUS_UNCORE_OVF_MASK == {61}
IA32_PERF_GLOBAL_STATUS_DS_BUFFER_OVF_MASK == {62}
IA32_PERF_GLOBAL_STATUS_COND_CHGD_MASK == {63}
IA32_DEBUGCTL_FREEZE_PERFMON_ON_PMI_MASK == {12}

\* TRY_FREEZE_ON_PMI is 0: no bit of IA32_DEBUGCTL is writable.
kDebugCtrlWritableBits == {}
\* EVENT_SELECT, UMASK, USR, OS, E, PC, INT, ANY, EN, INV, CMASK: bits 0..31.
kEventSelectWritableBits == 0 .. 31

IPM_CONFIG_FLAG_PC == {0}
IPM_CONFIG_FLAG_TIMEBASE == {1}
IPM_CONFIG_FLAG_MASK == IPM_CONFIG_FLAG_PC \cup IPM_CONFIG_FLAG_TIMEBASE

CPUPERF_BUFFER_FLAG_FULL == {0}

\* The union of m(i) for 0 <= i < n.
MaskUpTo(m(_), n) == UNION {m(i) : i \in 0 .. (n - 1)}

\* ----------------------------------------------------------------- event ids

CPUPERF_EVENT_ID_NONE == 0
CPUPERF_UNIT_FIXED == 1
CPUPERF_UNIT_ARCH == 2
CPUPERF_MAKE_EVENT_ID(unit, event) == unit * 2048 + event
CPUPERF_EVENT_ID_UNIT(id) == id \div 2048
CPUPERF_EVENT_ID_EVENT(id) == id % 2048

\* intel-pm-events.inc: fixed event e is counted by fixed counter e - 1; the
\* table names as many events as the fixed counter arrays have slots.
FixedEventTable == [e \in 1 .. IPM_MAX_FIXED_COUNTERS |-> e - 1]

\* Return the h/w register number for fixed event id |id|
\* or IPM_MAX_FIXED_COUNTERS if not found.
x86_perfmon_lookup_fixed_counter(id) ==
    IF CPUPERF_EVENT_ID_UNIT(id) # CPUPERF_UNIT_FIXED
    THEN IPM_MAX_FIXED_COUNTERS
    ELSE IF CPUPERF_EVENT_ID_EVENT(id) \in DOMAIN FixedEventTable
         THEN FixedEventTable[CPUPERF_EVENT_ID_EVENT(id)]
         ELSE IPM_MAX_FIXED_COUNTERS

\* ------------------------------------------------------------- record sizes

SizeofBufferHeader == 24
SizeofRecordHeader == 16
SizeofTickRecord == 16
SizeofValueRecord == 24
SizeofPcRecord == 32
kMaxRecordSize == SizeofPcRecord

CPUPERF_RECORD_TICK == 1
CPUPERF_RECORD_VALUE == 2
CPUPERF_RECORD_PC == 3
CPUPERF_BUFFER_VERSION == 1
CPUPERF_BUFFER_ARCH_X86_64 == 1

NULL == 0

ZX_OK == "ZX_OK"
ZX_ERR_NOT_SUPPORTED == "ZX_ERR_NOT_SUPPORTED"
ZX_ERR_BAD_STATE == "ZX_ERR_BAD_STATE"
ZX_ERR_INVALID_ARGS == "ZX_ERR_INVALID_ARGS"
ZX_ERR_NO_MEMORY == "ZX_ERR_NO_MEMORY"

\* -------------------------------------------------------------------- state

VARIABLES
    booted,                 \* x86_perfmon_init has run
    supports_perfmon,
    perfmon_version,
    perfmon_num_programmable_counters,
    perfmon_programmable_counter_width,
    perfmon_num_fixed_counters,
    perfmon_fixed_counter_width,
    perfmon_unsupported_events,
    perfmon_capabilities,
    perfmon_max_fixed_counter_value,
    perfmon_max_programmable_counter_value,
    perfmon_counter_status_bits,
    kGlobalCtrlWritableBits,
    kFixedCounterCtrlWritableBits,
    perfmon_state,          \* NULL or the PerfmonState, cpu_data included
    perfmon_active,
    mem,                    \* per cpu: the memory of the vmo assigned to it
    msr,                    \* per cpu: the value last written to each MSR
    pmi_masked,             \* per cpu: the LVT mask bit of the PMI
    hwlog,                  \* per cpu: what the last operation did there, in order
    assert_failed,          \* a DEBUG_ASSERT of the last operation was false
    pmi_count,              \* PMIs handled since the last start
    config,                 \* the zx_x86_ipm_config_t the driver holds
    ret,                    \* the last operation and what it returned
    script                  \* history: how far the driver's script has got

hw_vars == <<booted, supports_perfmon, perfmon_version,
             perfmon_num_programmable_counters,
             perfmon_programmable_counter_width,
             perfmon_num_fixed_counters, perfmon_fixed_counter_width,
             perfmon_unsupported_events, perfmon_capabilities,
             perfmon_max_fixed_counter_value,
             perfmon_max_programmable_counter_value,
             perfmon_counter_status_bits, kGlobalCtrlWritableBits,
             kFixedCounterCtrlWritableBits>>

vars == <<hw_vars, perfmon_state, perfmon_active, mem, msr, pmi_masked,
          hwlog, assert_failed, pmi_count, config, ret, script>>

\* ------------------------------------------------------------ the MSR file

\* FIXED_CTR0 + IPM_MAX_FIXED_COUNTERS is the register a failed lookup names.
CounterMsrs == {IA32_PMC_FIRST + i : i \in ProgSlots}
               \cup {IA32_FIXED_CTR0 + i : i \in 0 .. IPM_MAX_FIXED_COUNTERS}
ControlMsrs == {IA32_PERF_GLOBAL_CTRL, IA32_FIXED_CTR_CTRL, IA32_DEBUGCTL,
                IA32_PERF_GLOBAL_OVF_CTRL}
               \cup {IA32_PERFEVTSEL_FIRST + i : i \in ProgSlots}
MsrAddrs == CounterMsrs \cup ControlMsrs

\* The registers as the processor's reset leaves them.
ResetMsrs == [a \in MsrAddrs |-> IF a \in CounterMsrs THEN U64Zero ELSE {}]

\* The vmo's memory before the kernel has written to it.
ZeroMem == [version |-> 0, arch |-> 0, flags |-> {}, ticks_per_second |-> 0,
            capture_end |-> 0, records |-> <<>>]

NoLog == [c \in Cpus |-> <<>>]

\* ----------------------------------------------------- the capability probe

\* What cpuid.0AH (and the PDCM feature bit) may report.
CpuidLeaf(present, version, np, pw, el, nf, fw) ==
    [present |-> present, version |-> version, num_programmable |-> np,
     programmable_width |-> pw, ebx_length |-> el, b |-> {0, 2, 7, 9},
     num_fixed |-> nf, fixed_width |-> fw, pdcm |-> (pw = 48),
     capabilities |-> {0, 13}]

CpuidLeaves ==
    { CpuidLeaf(TRUE, 4, IPM_MAX_PROGRAMMABLE_COUNTERS, 48, 7,
                IPM_MAX_FIXED_COUNTERS, 48),
      CpuidLeaf(TRUE, 4, 1, 16, 7, 1, 64),
      CpuidLeaf(TRUE, 3, 1, 48, 7, 1, 48),
      CpuidLeaf(FALSE, 0, 0, 0, 0, 0, 0),
      CpuidLeaf(TRUE, 4, IPM_MAX_PROGRAMMABLE_COUNTERS + 1, 48, 7, 1, 48),
      CpuidLeaf(TRUE, 4, 1, 15, 7, 1, 48),
      CpuidLeaf(TRUE, 4, 1, 65, 7, 1, 48),
      CpuidLeaf(TRUE, 4, 1, 48, 8, 1, 48),
      CpuidLeaf(TRUE, 4, 1, 48, 7, IPM_MAX_FIXED_COUNTERS + 1, 48),
      CpuidLeaf(TRUE, 4, 1, 48, 7, 1, 15),
      CpuidLeaf(TRUE, 5, 1, 64, 0, 1, 65),
      CpuidLeaf(TRUE, 5, 0, 64, 0, 0, 16),
      CpuidLeaf(TRUE, 4, IPM_MAX_PROGRAMMABLE_COUNTERS, 16, 3, 1, 64),
      CpuidLeaf(TRUE, 4, 1, 64, 7, IPM_MAX_FIXED_COUNTERS, 16),
      CpuidLeaf(TRUE, 3, IPM_MAX_PROGRAMMABLE_COUNTERS + 1, 15, 8, 1, 48) }

\* The statics before the probe has run.
Unprobed ==
    [supports_perfmon |-> FALSE, perfmon_version |-> 0,
     perfmon_num_programmable_counters |-> 0,
     perfmon_programmable_counter_width |-> 0,
     perfmon_num_fixed_counters |-> 0, perfmon_fixed_counter_width |-> 0,
     perfmon_unsupported_events |-> {}, perfmon_capabilities |-> {},
     perfmon_max_fixed_counter_value |-> U64Zero,
     perfmon_max_programmable_counter_value |-> U64Zero,
     perfmon_counter_status_bits |-> {}, kGlobalCtrlWritableBits |-> {},
     kFixedCounterCtrlWritableBits |-> {}]

\* The masks built for every counter the arrays have room for.
probe_masks_for_maxima(np, nf) ==
    [status |->
         MaskUpTo(IA32_PERF_GLOBAL_STATUS_PMC_OVF_MASK,
                  IPM_MAX_PROGRAMMABLE_COUNTERS)
         \cup MaskUpTo(IA32_PERF_GLOBAL_STATUS_FIXED_OVF_MASK,
                       IPM_MAX_FIXED_COUNTERS),
     global_ctrl |->
         MaskUpTo(IA32_PERF_GLOBAL_CTRL_PMC_EN_MASK,
                  IPM_MAX_PROGRAMMABLE_COUNTERS)
         \cup MaskUpTo(IA32_PERF_GLOBAL_CTRL_FIXED_EN_MASK,
                       IPM_MAX_FIXED_COUNTERS),
     fixed_ctrl |->
         MaskUpTo(IA32_FIXED_CTR_CTRL_EN_MASK, IPM_MAX_FIXED_COUNTERS)
         \cup MaskUpTo(IA32_FIXED_CTR_CTRL_ANY_MASK, IPM_MAX_FIXED_COUNTERS)
         \cup MaskUpTo(IA32_FIXED_CTR_CTRL_PMI_MASK, IPM_MAX_FIXED_COUNTERS)]

\* The three masks the probe derives for |np| programmable and |nf| fixed
\* counters.
ProbeMasks(np, nf) ==
    [status |->
         MaskUpTo(IA32_PERF_GLOBAL_STATUS_PMC_OVF_MASK, np)
         \cup MaskUpTo(IA32_PERF_GLOBAL_STATUS_FIXED_OVF_MASK, nf),
     global_ctrl |->
         MaskUpTo(IA32_PERF_GLOBAL_CTRL_PMC_EN_MASK, np)
         \cup MaskUpTo(IA32_PERF_GLOBAL_CTRL_FIXED_EN_MASK, nf),
     fixed_ctrl |->
         MaskUpTo(IA32_FIXED_CTR_CTRL_EN_MASK, nf)
         \cup MaskUpTo(IA32_FIXED_CTR_CTRL_ANY_MASK, nf)
         \cup MaskUpTo(IA32_FIXED_CTR_CTRL_PMI_MASK, nf)]

\* The probe deciding on the version alone.
probe_result_version_only(leaf) ==
    [Unprobed EXCEPT
       !.perfmon_version = leaf.version,
       !.supports_perfmon = (leaf.version >= MINIMUM_PERFMON_VERSION)]

\* The statics x86_perfmon_init leaves for cpuid leaf |leaf|; each early
\* return keeps what was assigned before it.
ProbeResult(leaf) ==
    LET s1 == [Unprobed EXCEPT
                 !.perfmon_version = leaf.version,
                 !.perfmon_num_programmable_counters = leaf.num_programmable]
        s2 == [s1 EXCEPT
                 !.perfmon_programmable_counter_width = leaf.programmable_width]
        s3 == [s2 EXCEPT
                 !.perfmon_max_programmable_counter_value =
                     MaxCounterValue(leaf.programmable_width)]
        s4 == [s3 EXCEPT
                 !.perfmon_unsupported_events =
                     leaf.b \cap (0 .. (leaf.ebx_length - 1)),
                 !.perfmon_num_fixed_counters = leaf.num_fixed]
        s5 == [s4 EXCEPT
                 !.perfmon_fixed_counter_width = leaf.fixed_width]
        np == leaf.num_programmable
        nf == leaf.num_fixed
        s6 == [s5 EXCEPT
                 !.perfmon_max_fixed_counter_value =
                     MaxCounterValue(leaf.fixed_width),
                 !.supports_perfmon = (leaf.version >= MINIMUM_PERFMON_VERSION),
                 !.perfmon_capabilities =
                     IF leaf.pdcm THEN leaf.capabilities \cap (0 .. 31) ELSE {},
                 !.perfmon_counter_status_bits = ProbeMasks(np, nf).status,
                 !.kGlobalCtrlWritableBits = ProbeMasks(np, nf).global_ctrl,
                 !.kFixedCounterCtrlWritableBits = ProbeMasks(np, nf).fixed_ctrl]
    IN  IF ~leaf.present THEN Unprobed
        ELSE IF leaf.num_programmable > IPM_MAX_PROGRAMMABLE_COUNTERS THEN s1
        ELSE IF leaf.programmable_width < 16 \/ leaf.programmable_width > 64
             THEN s2
        ELSE IF leaf.ebx_length > 7 THEN s3
        ELSE IF leaf.num_fixed > IPM_MAX_FIXED_COUNTERS THEN s4
        ELSE IF leaf.fixed_width < 16 \/ leaf.fixed_width > 64 THEN s5
        ELSE s6

SetStatics(s) ==
    /\ supports_perfmon' = s.supports_perfmon
    /\ perfmon_version' = s.perfmon_version
    /\ perfmon_num_programmable_counters' = s.perfmon_num_programmable_counters
    /\ perfmon_programmable_counter_width' = s.perfmon_programmable_counter_width
    /\ perfmon_num_fixed_counters' = s.perfmon_num_fixed_counters
    /\ perfmon_fixed_counter_width' = s.perfmon_fixed_counter_width
    /\ perfmon_unsupported_events' = s.perfmon_unsupported_events
    /\ perfmon_capabilities' = s.perfmon_capabilities
    /\ perfmon_max_fixed_counter_value' = s.perfmon_max_fixed_counter_value
    /\ perfmon_max_programmable_counter_value' =
           s.perfmon_max_programmable_counter_value
    /\ perfmon_counter_status_bits' = s.perfmon_counter_status_bits
    /\ kGlobalCtrlWritableBits' = s.kGlobalCtrlWritableBits
    /\ kFixedCounterCtrlWritableBits' = s.kFixedCounterCtrlWritableBits

\* The boot-time probe, run once.
x86_perfmon_init(leaf) ==
    /\ ~booted
    /\ booted' = TRUE
    /\ SetStatics(ProbeResult(leaf))
    /\ ret' = [op |-> "x86_perfmon_init", status |-> ZX_OK]
    /\ UNCHANGED <<perfmon_state, perfmon_active, mem, msr, pmi_masked,
                   hwlog, assert_failed, pmi_count, config>>

\* ------------------------------------------------------------ configurations

ArchId(e) == CPUPERF_MAKE_EVENT_ID(CPUPERF_UNIT_ARCH, e)
FixedId(e) == CPUPERF_MAKE_EVENT_ID(CPUPERF_UNIT_FIXED, e)

ProgSlot(id, event, iv, flags) ==
    [id |-> id, event |-> event, initial_value |-> iv, flags |-> flags]
FixedSlot(id, iv, flags) == [id |-> id, initial_value |-> iv, flags |-> flags]
CtrlPart(g, f, d, t) ==
    [global_ctrl |-> g, fixed_ctrl |-> f, debug_ctrl |-> d, timebase_id |-> t]

ProgUnused == ProgSlot(0, {}, U64Zero, {})
ProgTick == ProgSlot(ArchId(1), {0, 22}, U64Zero, {})
ProgPc == ProgSlot(ArchId(2), {1, 16, 20, 22}, U64(65520), IPM_CONFIG_FLAG_PC)
ProgTimebase == ProgSlot(ArchId(3), {2, 22}, U64Zero, IPM_CONFIG_FLAG_TIMEBASE)
FixedUnused == FixedSlot(0, U64Zero, {})
FixedTick == FixedSlot(FixedId(IPM_MAX_FIXED_COUNTERS), U64Zero, {})
FixedPc == FixedSlot(FixedId(1), U64(65520), IPM_CONFIG_FLAG_PC)

\* What one programmable slot of a configuration may hold: unused, used and
\* well formed, and one slot for each thing the validator looks at.
ProgSlotKinds ==
    { ProgUnused, ProgTick, ProgPc, ProgTimebase,
      ProgSlot(0, {0}, U64Zero, {}),
      ProgSlot(0, {}, U64(1), {}),
      ProgSlot(0, {}, U64Zero, IPM_CONFIG_FLAG_PC),
      ProgSlot(ArchId(1), {0, 32}, U64Zero, {}),
      ProgSlot(ArchId(1), {0}, U64(65536), {}),
      ProgSlot(ArchId(1), {0}, U64AllOnes, {}),
      ProgSlot(ArchId(1), {0}, U64Zero, {2}) }

FixedSlotKinds ==
    { FixedUnused, FixedTick, FixedPc,
      FixedSlot(FixedId(1), U64Zero, IPM_CONFIG_FLAG_TIMEBASE),
      FixedSlot(0, U64(1), {}),
      FixedSlot(0, U64Zero, IPM_CONFIG_FLAG_PC),
      FixedSlot(FixedId(1), U64(65536), {}),
      FixedSlot(FixedId(1), U64AllOnes, {}),
      FixedSlot(FixedId(1), U64Zero, {2}),
      FixedSlot(ArchId(1), U64Zero, {}),
      FixedSlot(FixedId(IPM_MAX_FIXED_COUNTERS + 1), U64Zero, {}) }

CtrlOk == CtrlPart({0, 32}, {0, 3}, {}, CPUPERF_EVENT_ID_NONE)
CtrlKinds ==
    { CtrlOk,
      CtrlPart({}, {}, {}, CPUPERF_EVENT_ID_NONE),
      CtrlPart({0, 1, 32, 33}, {0, 3, 4, 7}, {}, ArchId(1)),
      CtrlPart({63}, {}, {}, CPUPERF_EVENT_ID_NONE),
      CtrlPart({}, {63}, {}, CPUPERF_EVENT_ID_NONE),
      CtrlPart({0}, {}, IA32_DEBUGCTL_FREEZE_PERFMON_ON_PMI_MASK,
               CPUPERF_EVENT_ID_NONE),
      CtrlPart({0}, {}, {0}, CPUPERF_EVENT_ID_NONE) }

\* Slot 0 is |first|, every later slot is |rest|.
Slots(S, first, rest) == [i \in S |-> IF i = 0 THEN first ELSE rest]

ProgFew == { Slots(ProgSlots, ProgUnused, ProgUnused),
             Slots(ProgSlots, ProgTick, ProgUnused),
             Slots(ProgSlots, ProgUnused, ProgTick) }
FixedFew == { Slots(FixedSlots, FixedUnused, FixedUnused),
              Slots(FixedSlots, FixedTick, FixedUnused),
              Slots(FixedSlots, FixedTick, FixedSlot(0, U64(1), {})) }

\* The zx_x86_ipm_config_t with these control values and slots.
MakeConfig(ctrl, fixed, prog) ==
    [global_ctrl |-> ctrl.global_ctrl,
     fixed_ctrl |-> ctrl.fixed_ctrl,
     debug_ctrl |-> ctrl.debug_ctrl,
     timebase_id |-> ctrl.timebase_id,
     fixed_ids |-> [i \in FixedSlots |-> fixed[i].id],
     fixed_initial_value |-> [i \in FixedSlots |-> fixed[i].initial_value],
     fixed_flags |-> [i \in FixedSlots |-> fixed[i].flags],
     programmable_ids |-> [i \in ProgSlots |-> prog[i].id],
     programmable_events |-> [i \in ProgSlots |-> prog[i].event],
     programmable_initial_value |->
         [i \in ProgSlots |-> prog[i].initial_value],
     programmable_flags |-> [i \in ProgSlots |-> prog[i].flags]]

\* The configurations the validator is exercised with: every combination of
\* slot kinds in one part, with the other two parts taken from a few.
AllConfigs ==
    { MakeConfig(c, f, p) :
          c \in CtrlKinds, f \in FixedFew, p \in ProgFew }
    \cup { MakeConfig(c, f, p) :
          c \in {CtrlOk}, f \in [FixedSlots -> FixedSlotKinds], p \in ProgFew }
    \cup { MakeConfig(c, f, p) :
          c \in {CtrlOk}, f \in FixedFew, p \in [ProgSlots -> ProgSlotKinds] }

\* The configurations the driver stages in the life-cycle specification.
LifeConfigs ==
    { \* one programmable and one fixed counter
      MakeConfig(CtrlOk, Slots(FixedSlots, FixedPc, FixedUnused),
                 Slots(ProgSlots, ProgPc, ProgUnused)),
      \* one programmable counter
      MakeConfig(CtrlOk, Slots(FixedSlots, FixedUnused, FixedUnused),
                 Slots(ProgSlots, ProgTick, ProgUnused)),
      \* a control value with a bit that is not writable
      MakeConfig(CtrlPart({63}, {}, {}, CPUPERF_EVENT_ID_NONE),
                 Slots(FixedSlots, FixedTick, FixedUnused),
                 Slots(ProgSlots, ProgTick, ProgUnused)),
      \* well-formed fixed counters, a malformed programmable counter
      MakeConfig(CtrlOk, Slots(FixedSlots, FixedTick, FixedUnused),
                 Slots(ProgSlots, ProgSlot(ArchId(1), {0}, U64Zero, {2}),
                       ProgUnused)) }

\* ------------------------------------------------------------- PerfmonState

NoVmo == [present |-> FALSE, size |-> 0]
Vmo(size) == [present |-> TRUE, size |-> size]

\* PerfmonCpuData()
NewCpuData ==
    [buffer_vmo |-> NoVmo, buffer_size |-> 0, buffer_mapping |-> FALSE,
     buffer_start |-> NULL, buffer_end |-> NULL, buffer_next |-> NULL]

NoState == [present |-> FALSE]

\* PerfmonState::Create(n_cpus).  |staged| is a history field: a
\* stage_config has succeeded on this state.
NewState ==
    [present |-> TRUE, staged |-> FALSE,
     global_ctrl |-> {}, fixed_ctrl |-> {}, debug_ctrl |-> {},
     timebase_id |-> CPUPERF_EVENT_ID_NONE,
     num_used_fixed |-> 0, num_used_programmable |-> 0,
     num_cpus |-> NumCpus,
     cpu_data |-> [c \in Cpus |-> NewCpuData],
     fixed_hw_map |-> [i \in FixedSlots |-> 0],
     fixed_initial_value |-> [i \in FixedSlots |-> U64Zero],
     programmable_initial_value |-> [i \in ProgSlots |-> U64Zero],
     fixed_flags |-> [i \in FixedSlots |-> {}],
     programmable_flags |-> [i \in ProgSlots |-> {}],
     fixed_ids |-> [i \in FixedSlots |-> 0],
     programmable_ids |-> [i \in ProgSlots |-> 0],
     events |-> [i \in ProgSlots |-> {}]]

\* An entry point that returns |status| having touched no hardware.
Returns(op, status) ==
    /\ ret' = [op |-> op, status |-> status]
    /\ hwlog' = NoLog
    /\ assert_failed' = FALSE

\* ---------------------------------------------------------- get_properties

x86_ipm_get_properties ==
    /\ Returns("x86_ipm_get_properties",
               IF ~supports_perfmon THEN ZX_ERR_NOT_SUPPORTED ELSE ZX_OK)
    /\ UNCHANGED <<hw_vars, perfmon_state, perfmon_active, mem, msr,
                   pmi_masked, pmi_count, config>>

\* -------------------------------------------------------------------- init

\* What PerfmonState::Create returns: the allocation fails or not.
x86_ipm_init_status(alloc_ok) ==
    IF ~supports_perfmon THEN ZX_ERR_NOT_SUPPORTED
    ELSE IF perfmon_active THEN ZX_ERR_BAD_STATE
    ELSE IF perfmon_state.present THEN ZX_ERR_BAD_STATE
    ELSE IF ~alloc_ok THEN ZX_ERR_NO_MEMORY
    ELSE ZX_OK

\* x86_ipm_init creating a Session that counts the hardware's counters as
\* used.
init_counting_hardware(alloc_ok) ==
    LET status == x86_ipm_init_status(alloc_ok)
    IN  /\ Returns("x86_ipm_init", status)
        /\ perfmon_state' =
               IF status = ZX_OK
               THEN [NewState EXCEPT
                       !.num_used_programmable =
                           perfmon_num_programmable_counters]
               ELSE perfmon_state
        /\ UNCHANGED <<hw_vars, perfmon_active, mem, msr, pmi_masked,
                       pmi_count, config>>

x86_ipm_init(alloc_ok) ==
    LET status == x86_ipm_init_status(alloc_ok)
    IN  /\ Returns("x86_ipm_init", status)
        /\ perfmon_state' = IF status = ZX_OK THEN NewState ELSE perfmon_state
        /\ UNCHANGED <<hw_vars, perfmon_active, mem, msr, pmi_masked,
                       pmi_count, config>>

\* ------------------------------------------------------------ assign_buffer

\* A simple safe approximation of the minimum size needed.
min_size_needed == SizeofBufferHeader + CPUPERF_MAX_COUNTERS * kMaxRecordSize

VmoSizes == {min_size_needed - 8, min_size_needed + 8}

\* The checks of x86_ipm_assign_buffer without the one on perfmon_active.
assign_buffer_status_while_active(cpu, vmo) ==
    IF ~supports_perfmon THEN ZX_ERR_NOT_SUPPORTED
    ELSE IF ~perfmon_state.present THEN ZX_ERR_BAD_STATE
    ELSE IF cpu >= perfmon_state.num_cpus THEN ZX_ERR_INVALID_ARGS
    ELSE IF vmo.size < min_size_needed THEN ZX_ERR_INVALID_ARGS
    ELSE ZX_OK

\* The checks of x86_ipm_assign_buffer refusing a vmo of exactly the
\* minimum size.
assign_buffer_status_above_minimum(cpu, vmo) ==
    IF ~supports_perfmon THEN ZX_ERR_NOT_SUPPORTED
    ELSE IF perfmon_active THEN ZX_ERR_BAD_STATE
    ELSE IF ~perfmon_state.present THEN ZX_ERR_BAD_STATE
    ELSE IF cpu >= perfmon_state.num_cpus THEN ZX_ERR_INVALID_ARGS
    ELSE IF vmo.size <= min_size_needed THEN ZX_ERR_INVALID_ARGS
    ELSE ZX_OK

x86_ipm_assign_buffer_status(cpu, vmo) ==
    IF ~supports_perfmon THEN ZX_ERR_NOT_SUPPORTED
    ELSE IF perfmon_active THEN ZX_ERR_BAD_STATE
    ELSE IF ~perfmon_state.present THEN ZX_ERR_BAD_STATE
    ELSE IF cpu >= perfmon_state.num_cpus THEN ZX_ERR_INVALID_ARGS
    ELSE IF vmo.size < min_size_needed THEN ZX_ERR_INVALID_ARGS
    ELSE ZX_OK

x86_ipm_assign_buffer(cpu, vmo) ==
    LET status == x86_ipm_assign_buffer_status(cpu, vmo)
    IN  /\ Returns("x86_ipm_assign_buffer", status)
        /\ IF status = ZX_OK
           THEN /\ perfmon_state' =
                       [perfmon_state EXCEPT
                          !.cpu_data[cpu].buffer_vmo = vmo,
                          !.cpu_data[cpu].buffer_size = vmo.size]
                /\ mem' = [mem EXCEPT ![cpu] = ZeroMem]
           ELSE UNCHANGED <<perfmon_state, mem>>
        /\ UNCHANGED <<hw_vars, perfmon_active, msr, pmi_masked, pmi_count,
                       config>>

\* ------------------------------------------------------------- stage_config

\* x86_ipm_verify_control_config without the check of global_ctrl.
verify_control_config_without_global_ctrl(cfg) ==
    IF cfg.debug_ctrl \cap IA32_DEBUGCTL_FREEZE_PERFMON_ON_PMI_MASK # {}
    THEN ZX_ERR_INVALID_ARGS
    ELSE IF cfg.fixed_ctrl \ kFixedCounterCtrlWritableBits # {}
    THEN ZX_ERR_INVALID_ARGS
    ELSE IF cfg.debug_ctrl \ kDebugCtrlWritableBits # {}
    THEN ZX_ERR_INVALID_ARGS
    ELSE ZX_OK

\* x86_ipm_verify_control_config built with TRY_FREEZE_ON_PMI: the freeze
\* bit is demanded instead of refused.
verify_control_config_try_freeze(cfg) ==
    IF cfg.debug_ctrl \cap IA32_DEBUGCTL_FREEZE_PERFMON_ON_PMI_MASK = {}
    THEN ZX_ERR_INVALID_ARGS
    ELSE IF cfg.global_ctrl \ kGlobalCtrlWritableBits # {}
    THEN ZX_ERR_INVALID_ARGS
    ELSE IF cfg.fixed_ctrl \ kFixedCounterCtrlWritableBits # {}
    THEN ZX_ERR_INVALID_ARGS
    ELSE IF cfg.debug_ctrl \ kDebugCtrlWritableBits # {}
    THEN ZX_ERR_INVALID_ARGS
    ELSE ZX_OK

\* x86_ipm_verify_control_config with the freeze policy as its only check.
verify_control_config_freeze_only(cfg) ==
    IF cfg.debug_ctrl \cap IA32_DEBUGCTL_FREEZE_PERFMON_ON_PMI_MASK # {}
    THEN ZX_ERR_INVALID_ARGS
    ELSE ZX_OK

x86_ipm_verify_control_config(cfg) ==
    IF cfg.debug_ctrl \cap IA32_DEBUGCTL_FREEZE_PERFMON_ON_PMI_MASK # {}
    THEN ZX_ERR_INVALID_ARGS
    ELSE IF cfg.global_ctrl \ kGlobalCtrlWritableBits # {}
    THEN ZX_ERR_INVALID_ARGS
    ELSE IF cfg.fixed_ctrl \ kFixedCounterCtrlWritableBits # {}
    THEN ZX_ERR_INVALID_ARGS
    ELSE IF cfg.debug_ctrl \ kDebugCtrlWritableBits # {}
    THEN ZX_ERR_INVALID_ARGS
    ELSE ZX_OK

Verdict(status, num_used) == [status |-> status, num_used |-> num_used]

\* One iteration of the loop over the fixed counters, and the rest of the loop.
RECURSIVE VerifyFixedLoop(_, _, _, _)
VerifyFixedLoop(cfg, i, seen_last, num_used) ==
    IF i >= perfmon_num_fixed_counters THEN Verdict(ZX_OK, num_used)
    ELSE
    LET id == cfg.fixed_ids[i]
        seen == seen_last \/ id = 0
        used == IF id = 0 /\ ~seen_last THEN i ELSE num_used
        bad == Verdict(ZX_ERR_INVALID_ARGS, num_used)
    IN  IF id # 0 /\ seen_last THEN bad
        ELSE IF seen
        THEN IF cfg.fixed_initial_value[i] # U64Zero THEN bad
             ELSE IF cfg.fixed_flags[i] # {} THEN bad
             ELSE VerifyFixedLoop(cfg, i + 1, seen, used)
        ELSE IF ~U64Le(cfg.fixed_initial_value[i],
                       perfmon_max_fixed_counter_value) THEN bad
             ELSE IF cfg.fixed_flags[i] \ IPM_CONFIG_FLAG_MASK # {} THEN bad
             ELSE IF x86_perfmon_lookup_fixed_counter(id)
                     = IPM_MAX_FIXED_COUNTERS THEN bad
             ELSE VerifyFixedLoop(cfg, i + 1, seen, used)

x86_ipm_verify_fixed_config(cfg) ==
    VerifyFixedLoop(cfg, 0, FALSE, perfmon_num_fixed_counters)

RECURSIVE VerifyProgrammableLoop(_, _, _, _)
VerifyProgrammableLoop(cfg, i, seen_last, num_used) ==
    IF i >= perfmon_num_programmable_counters THEN Verdict(ZX_OK, num_used)
    ELSE
    LET id == cfg.programmable_ids[i]
        seen == seen_last \/ id = 0
        used == IF id = 0 /\ ~seen_last THEN i ELSE num_used
        bad == Verdict(ZX_ERR_INVALID_ARGS, num_used)
    IN  IF id # 0 /\ seen_last THEN bad
        ELSE IF seen
        THEN IF cfg.programmable_events[i] # {} THEN bad
             ELSE IF cfg.programmable_initial_value[i] # U64Zero THEN bad
             ELSE IF cfg.programmable_flags[i] # {} THEN bad
             ELSE VerifyProgrammableLoop(cfg, i + 1, seen, used)
        ELSE IF cfg.programmable_events[i] \ kEventSelectWritableBits # {}
             THEN bad
             ELSE IF ~U64Le(cfg.programmable_initial_value[i],
                            perfmon_max_programmable_counter_value) THEN bad
             ELSE IF cfg.programmable_flags[i] \ IPM_CONFIG_FLAG_MASK # {}
             THEN bad
             ELSE VerifyProgrammableLoop(cfg, i + 1, seen, used)

x86_ipm_verify_programmable_config(cfg) ==
    VerifyProgrammableLoop(cfg, 0, FALSE, perfmon_num_programmable_counters)

\* The copy of |cfg| into the state, after all three validators passed.
\* timebase_id is not among the fields the code copies.
StageCommit(state, cfg) ==
    [state EXCEPT
       !.staged = TRUE,
       !.global_ctrl = cfg.global_ctrl,
       !.events = cfg.programmable_events,
       !.fixed_ctrl = cfg.fixed_ctrl,
       !.debug_ctrl = cfg.debug_ctrl,
       !.programmable_initial_value = cfg.programmable_initial_value,
       !.fixed_initial_value = cfg.fixed_initial_value,
       !.programmable_flags = cfg.programmable_flags,
       !.fixed_flags = cfg.fixed_flags,
       !.programmable_ids = cfg.programmable_ids,
       !.fixed_ids = cfg.fixed_ids,
       !.fixed_hw_map =
           [i \in FixedSlots |->
              x86_perfmon_lookup_fixed_counter(cfg.fixed_ids[i])]]

\* The status stage_config returns and the state it leaves.  num_used_fixed
\* is stored as soon as the fixed counters have been verified, before the
\* programmable counters are looked at.
StageResult(cfg) ==
    LET state == perfmon_state
        keep(status) == [status |-> status, state |-> state]
        control == x86_ipm_verify_control_config(cfg)
        fixed == x86_ipm_verify_fixed_config(cfg)
        state1 == [state EXCEPT !.num_used_fixed = fixed.num_used]
        prog == x86_ipm_verify_programmable_config(cfg)
        state2 == [state1 EXCEPT !.num_used_programmable = prog.num_used]
    IN  IF ~supports_perfmon THEN keep(ZX_ERR_NOT_SUPPORTED)
        ELSE IF perfmon_active THEN keep(ZX_ERR_BAD_STATE)
        ELSE IF ~state.present THEN keep(ZX_ERR_BAD_STATE)
        ELSE IF control # ZX_OK THEN keep(control)
        ELSE IF fixed.status # ZX_OK THEN keep(fixed.status)
        ELSE IF prog.status # ZX_OK
             THEN [status |-> prog.status, state |-> state1]
        ELSE [status |-> ZX_OK, state |-> StageCommit(state2, cfg)]

x86_ipm_stage_config(cfg) ==
    /\ Returns("x86_ipm_stage_config", StageResult(cfg).status)
    /\ perfmon_state' = StageResult(cfg).state
    /\ UNCHANGED <<hw_vars, perfmon_active, mem, msr, pmi_masked, pmi_count,
                   config>>

\* ------------------------------------------------- what a cpu does, in order

\* The part of the machine one cpu works on while it runs a task or the PMI
\* handler: its MSRs, its PMI mask, its buffer and cpu_data, the local cursor
\* |next|, and the log of what it did.
CpuContext(c, state) ==
    [msr |-> msr[c], masked |-> pmi_masked[c], mem |-> mem[c],
     data |-> state.cpu_data[c], next |-> state.cpu_data[c].buffer_next,
     saw_timebase |-> FALSE, log |-> <<>>, bad |-> FALSE]

write_msr(ctx, addr, value) ==
    [ctx EXCEPT !.msr[addr] = value,
                !.log = Append(@, <<"write_msr", addr, value>>)]
read_msr(ctx, addr) == [ctx EXCEPT !.log = Append(@, <<"read_msr", addr>>)]
apic_pmi_mask(ctx) ==
    [ctx EXCEPT !.masked = TRUE, !.log = Append(@, <<"apic_pmi_mask">>)]
apic_pmi_unmask(ctx) ==
    [ctx EXCEPT !.masked = FALSE, !.log = Append(@, <<"apic_pmi_unmask">>)]
apic_issue_eoi(ctx) == [ctx EXCEPT !.log = Append(@, <<"apic_issue_eoi">>)]
DEBUG_ASSERT(ctx, cond) == IF cond THEN ctx ELSE [ctx EXCEPT !.bad = TRUE]

\* A record of |size| bytes written at the cursor; the cursor moves past it.
WriteRecord(ctx, type, id, value, size) ==
    [ctx EXCEPT
       !.mem.records =
           Append(@, [type |-> type, event |-> id, value |-> value,
                      at |-> ctx.next - ctx.data.buffer_start,
                      size |-> size]),
       !.next = @ + size,
       !.log = Append(@, <<"record", type, id>>)]

\* A tick record written twice.
write_tick_record_twice(ctx, id) ==
    WriteRecord(WriteRecord(ctx, CPUPERF_RECORD_TICK, id, U64Zero,
                            SizeofTickRecord),
                CPUPERF_RECORD_TICK, id, U64Zero, SizeofTickRecord)

x86_perfmon_write_tick_record(ctx, id) ==
    WriteRecord(ctx, CPUPERF_RECORD_TICK, id, U64Zero, SizeofTickRecord)
x86_perfmon_write_value_record(ctx, id, value) ==
    WriteRecord(ctx, CPUPERF_RECORD_VALUE, id, value, SizeofValueRecord)
x86_perfmon_write_pc_record(ctx, id) ==
    WriteRecord(ctx, CPUPERF_RECORD_PC, id, U64Zero, SizeofPcRecord)

x86_perfmon_clear_overflow_indicators(ctx) ==
    write_msr(ctx, IA32_PERF_GLOBAL_OVF_CTRL,
              IA32_PERF_GLOBAL_STATUS_COND_CHGD_MASK
              \cup IA32_PERF_GLOBAL_STATUS_DS_BUFFER_OVF_MASK
              \cup IA32_PERF_GLOBAL_STATUS_UNCORE_OVF_MASK
              \cup MaskUpTo(IA32_PERF_GLOBAL_STATUS_PMC_OVF_MASK,
                            perfmon_num_programmable_counters)
              \cup MaskUpTo(IA32_PERF_GLOBAL_STATUS_FIXED_OVF_MASK,
                            perfmon_num_fixed_counters))

\* What the counters may read when software reads them.
Readings == {U64(5)}

\* ----------------------------------------------------- mapping the buffers

\* The kernel address CreateVmMapping places the buffer of |cpu| at.
MappingBase(cpu) == 4096 * (cpu + 1)

TicksPerSecond == 1000

\* No failure, or the cpu whose CreateVmMapping or MapRange call fails.
MapOutcomes ==
    { [cpu |-> NumCpus, call |-> "none"],
      [cpu |-> 0, call |-> "CreateVmMapping"],
      [cpu |-> NumCpus - 1, call |-> "MapRange"] }

\* CreateVmMapping for the vmo of |data|: a missing vmo cannot be mapped.
CreateVmMapping(data, cpu, outcome) ==
    IF ~data.buffer_vmo.present THEN ZX_ERR_INVALID_ARGS
    ELSE IF outcome.cpu = cpu /\ outcome.call = "CreateVmMapping"
    THEN ZX_ERR_NO_MEMORY
    ELSE ZX_OK

MapRange(cpu, outcome) ==
    IF outcome.cpu = cpu /\ outcome.call = "MapRange"
    THEN ZX_ERR_NO_MEMORY ELSE ZX_OK

\* x86_ipm_unmap_buffers_locked: the cpu_data of every cpu afterwards.
x86_ipm_unmap_buffers_locked(cpu_data) ==
    [c \in Cpus |->
       [cpu_data[c] EXCEPT !.buffer_mapping = FALSE, !.buffer_start = NULL,
                           !.buffer_end = NULL, !.buffer_next = NULL]]

\* The loop of x86_ipm_map_buffers_locked from |cpu| on; |m| holds the
\* cpu_data and the buffers' memory so far.
RECURSIVE MapBuffersLoop(_, _, _)
MapBuffersLoop(m, cpu, outcome) ==
    IF cpu >= NumCpus THEN [m EXCEPT !.status = ZX_OK]
    ELSE
    LET data == m.cpu_data[cpu]
        created == CreateVmMapping(data, cpu, outcome)
        ranged == MapRange(cpu, outcome)
        start == MappingBase(cpu)
        mapped ==
            [data EXCEPT !.buffer_mapping = TRUE,
                         !.buffer_start = start,
                         !.buffer_end = start + data.buffer_size,
                         !.buffer_next = start + SizeofBufferHeader]
        hdr == [m.mem[cpu] EXCEPT
                  !.version = CPUPERF_BUFFER_VERSION,
                  !.arch = CPUPERF_BUFFER_ARCH_X86_64,
                  !.flags = {},
                  !.ticks_per_second = TicksPerSecond,
                  !.capture_end = SizeofBufferHeader,
                  !.records = <<>>]
    IN  IF created # ZX_OK THEN [m EXCEPT !.status = created]
        ELSE IF ranged # ZX_OK
        THEN [m EXCEPT !.status = ranged,
                       !.cpu_data[cpu].buffer_mapping = FALSE]
        ELSE MapBuffersLoop([m EXCEPT !.cpu_data[cpu] = mapped,
                                      !.mem[cpu] = hdr],
                            cpu + 1, outcome)

\* x86_ipm_map_buffers_locked returning ZX_OK whatever the loop met.
map_buffers_ignoring_failure(state, outcome) ==
    LET m == MapBuffersLoop([status |-> ZX_OK, cpu_data |-> state.cpu_data,
                             mem |-> mem], 0, outcome)
    IN  [m EXCEPT !.status = ZX_OK]

\* x86_ipm_map_buffers_locked leaving the cpus it mapped before a failure
\* mapped.
map_buffers_without_rollback(state, outcome) ==
    MapBuffersLoop([status |-> ZX_OK, cpu_data |-> state.cpu_data,
                    mem |-> mem], 0, outcome)

\* x86_ipm_map_buffers_locked leaving the flags and the records of each
\* buffer as it finds them.
map_buffers_keeping_contents(state, outcome) ==
    LET m == MapBuffersLoop([status |-> ZX_OK, cpu_data |-> state.cpu_data,
                             mem |-> mem], 0, outcome)
        kept == [c \in Cpus |->
                   [m.mem[c] EXCEPT !.flags = mem[c].flags,
                                    !.records = mem[c].records]]
    IN  IF m.status # ZX_OK
        THEN [m EXCEPT !.cpu_data = x86_ipm_unmap_buffers_locked(m.cpu_data)]
        ELSE [m EXCEPT !.mem = kept]

x86_ipm_map_buffers_locked(state, outcome) ==
    LET m == MapBuffersLoop([status |-> ZX_OK, cpu_data |-> state.cpu_data,
                             mem |-> mem], 0, outcome)
    IN  IF m.status # ZX_OK
        THEN [m EXCEPT !.cpu_data = x86_ipm_unmap_buffers_locked(m.cpu_data)]
        ELSE m

\* -------------------------------------------------------------------- start

RECURSIVE StartFixedLoop(_, _, _)
StartFixedLoop(ctx, state, i) ==
    IF i >= state.num_used_fixed THEN ctx
    ELSE LET hw_num == state.fixed_hw_map[i]
             c1 == DEBUG_ASSERT(ctx, hw_num < perfmon_num_fixed_counters)
         IN  StartFixedLoop(write_msr(c1, IA32_FIXED_CTR0 + hw_num,
                                      state.fixed_initial_value[i]),
                            state, i + 1)

RECURSIVE StartProgrammableLoop(_, _, _)
StartProgrammableLoop(ctx, state, i) ==
    IF i >= state.num_used_programmable THEN ctx
    ELSE LET c1 == write_msr(ctx, IA32_PERFEVTSEL_FIRST + i, {})
             c2 == write_msr(c1, IA32_PMC_FIRST + i,
                             state.programmable_initial_value[i])
             c3 == write_msr(c2, IA32_PERFEVTSEL_FIRST + i, state.events[i])
         IN  StartProgrammableLoop(c3, state, i + 1)

\* x86_ipm_start_cpu_task enabling the counters before it has written
\* DEBUGCTL and unmasked the PMI.
start_cpu_task_enabling_early(ctx, state) ==
    LET c0 == DEBUG_ASSERT(ctx, ~perfmon_active)
        c1 == StartFixedLoop(c0, state, 0)
        c2 == write_msr(c1, IA32_FIXED_CTR_CTRL, state.fixed_ctrl)
        c3 == StartProgrammableLoop(c2, state, 0)
        c4 == write_msr(c3, IA32_PERF_GLOBAL_CTRL, state.global_ctrl)
        c5 == write_msr(c4, IA32_DEBUGCTL, state.debug_ctrl)
    IN  apic_pmi_unmask(c5)

x86_ipm_start_cpu_task(ctx, state) ==
    LET c0 == DEBUG_ASSERT(ctx, ~perfmon_active)
        c1 == StartFixedLoop(c0, state, 0)
        c2 == write_msr(c1, IA32_FIXED_CTR_CTRL, state.fixed_ctrl)
        c3 == StartProgrammableLoop(c2, state, 0)
        c4 == write_msr(c3, IA32_DEBUGCTL, state.debug_ctrl)
        c5 == apic_pmi_unmask(c4)
    IN  write_msr(c5, IA32_PERF_GLOBAL_CTRL, state.global_ctrl)

\* The machine after mp_sync_exec has run a task on every cpu: |done[c]| is
\* the context cpu c ended with.
Broadcast(done) ==
    /\ msr' = [c \in Cpus |-> done[c].msr]
    /\ pmi_masked' = [c \in Cpus |-> done[c].masked]
    /\ hwlog' = [c \in Cpus |-> done[c].log]
    /\ assert_failed' = (\E c \in Cpus : done[c].bad)

\* The checks of x86_ipm_start answering a missing state with INVALID_ARGS.
start_status_invalid_args ==
    IF ~supports_perfmon THEN ZX_ERR_NOT_SUPPORTED
    ELSE IF perfmon_active THEN ZX_ERR_BAD_STATE
    ELSE IF ~perfmon_state.present THEN ZX_ERR_INVALID_ARGS
    ELSE ZX_OK

x86_ipm_start_status ==
    IF ~supports_perfmon THEN ZX_ERR_NOT_SUPPORTED
    ELSE IF perfmon_active THEN ZX_ERR_BAD_STATE
    ELSE IF ~perfmon_state.present THEN ZX_ERR_BAD_STATE
    ELSE ZX_OK

x86_ipm_start(outcome) ==
    IF x86_ipm_start_status # ZX_OK
    THEN /\ Returns("x86_ipm_start", x86_ipm_start_status)
         /\ UNCHANGED <<hw_vars, perfmon_state, perfmon_active, mem, msr,
                        pmi_masked, pmi_count, config>>
    ELSE
    LET m == x86_ipm_map_buffers_locked(perfmon_state, outcome)
        state == [perfmon_state EXCEPT !.cpu_data = m.cpu_data]
        done == [c \in Cpus |->
                   x86_ipm_start_cpu_task(CpuContext(c, state), state)]
    IN  /\ perfmon_state' = state
        /\ mem' = m.mem
        /\ ret' = [op |-> "x86_ipm_start", status |-> m.status]
        /\ IF m.status # ZX_OK
           THEN /\ hwlog' = NoLog
                /\ assert_failed' = FALSE
                /\ UNCHANGED <<perfmon_active, msr, pmi_masked, pmi_count>>
           ELSE /\ Broadcast(done)
                /\ perfmon_active' = TRUE
                /\ pmi_count' = 0
        /\ UNCHANGED <<hw_vars, config>>

\* --------------------------------------------------------------------- stop

\* The stop task's value without the correction for a counter that wrapped.
final_value_no_wrap(value, initial_value, max_value) ==
    U64Sub(value, initial_value)

\* The value the stop task records for a counter that reads |value|.
FinalValue(value, initial_value, max_value) ==
    IF U64Le(initial_value, value)
    THEN U64Sub(value, initial_value)
    ELSE U64Add(value, U64Add(U64Sub(max_value, initial_value), U64(1)))

SetFull(ctx) ==
    [ctx EXCEPT !.mem.flags = @ \cup CPUPERF_BUFFER_FLAG_FULL]

RECURSIVE StopProgrammableLoop(_, _, _, _, _)
StopProgrammableLoop(ctx, state, i, last, rd) ==
    IF i >= state.num_used_programmable THEN ctx
    ELSE IF ctx.next > last THEN SetFull(ctx)
    ELSE LET id == state.programmable_ids[i]
             c1 == DEBUG_ASSERT(ctx, id # 0)
             c2 == read_msr(c1, IA32_PMC_FIRST + i)
             value == FinalValue(rd, state.programmable_initial_value[i],
                                 perfmon_max_programmable_counter_value)
         IN  StopProgrammableLoop(x86_perfmon_write_value_record(c2, id, value),
                                  state, i + 1, last, rd)

RECURSIVE StopFixedLoop(_, _, _, _, _)
StopFixedLoop(ctx, state, i, last, rd) ==
    IF i >= state.num_used_fixed THEN ctx
    ELSE IF ctx.next > last THEN SetFull(ctx)
    ELSE LET id == state.fixed_ids[i]
             c1 == DEBUG_ASSERT(ctx, id # 0)
             hw_num == state.fixed_hw_map[i]
             c2 == DEBUG_ASSERT(c1, hw_num < perfmon_num_fixed_counters)
             c3 == read_msr(c2, IA32_FIXED_CTR0 + hw_num)
             value == FinalValue(rd, state.fixed_initial_value[i],
                                 perfmon_max_fixed_counter_value)
         IN  StopFixedLoop(x86_perfmon_write_value_record(c3, id, value),
                           state, i + 1, last, rd)

\* x86_ipm_stop_cpu_task collecting the fixed counters before the
\* programmable ones.
stop_cpu_task_fixed_first(ctx, state, rd) ==
    LET c1 == write_msr(ctx, IA32_PERF_GLOBAL_CTRL, {})
        c2 == apic_pmi_mask(c1)
        last == c2.data.buffer_end - SizeofRecordHeader
        c3 == StopFixedLoop(c2, state, 0, last, rd)
        c4 == StopProgrammableLoop(c3, state, 0, last, rd)
        c5 == [c4 EXCEPT
                 !.data.buffer_next = c4.next,
                 !.mem.capture_end = c4.next - c4.data.buffer_start,
                 !.log = Append(@, <<"capture_end",
                                     c4.next - c4.data.buffer_start>>)]
    IN  x86_perfmon_clear_overflow_indicators(
            IF c2.data.buffer_start # NULL THEN c5 ELSE c2)

\* x86_ipm_stop_cpu_task turning the counters off without masking the PMI.
stop_cpu_task_leaving_pmi_unmasked(ctx, state, rd) ==
    LET c2 == write_msr(ctx, IA32_PERF_GLOBAL_CTRL, {})
        last == c2.data.buffer_end - SizeofRecordHeader
        c3 == StopProgrammableLoop(c2, state, 0, last, rd)
        c4 == StopFixedLoop(c3, state, 0, last, rd)
        c5 == [c4 EXCEPT
                 !.data.buffer_next = c4.next,
                 !.mem.capture_end = c4.next - c4.data.buffer_start,
                 !.log = Append(@, <<"capture_end",
                                     c4.next - c4.data.buffer_start>>)]
    IN  x86_perfmon_clear_overflow_indicators(
            IF c2.data.buffer_start # NULL THEN c5 ELSE c2)

\* x86_ipm_stop_cpu_task clearing the overflow indicators before it
\* collects the counters.
stop_cpu_task_clearing_first(ctx, state, rd) ==
    LET c1 == write_msr(ctx, IA32_PERF_GLOBAL_CTRL, {})
        c2 == x86_perfmon_clear_overflow_indicators(apic_pmi_mask(c1))
        last == c2.data.buffer_end - SizeofRecordHeader
        c3 == StopProgrammableLoop(c2, state, 0, last, rd)
        c4 == StopFixedLoop(c3, state, 0, last, rd)
        c5 == [c4 EXCEPT
                 !.data.buffer_next = c4.next,
                 !.mem.capture_end = c4.next - c4.data.buffer_start,
                 !.log = Append(@, <<"capture_end",
                                     c4.next - c4.data.buffer_start>>)]
    IN  IF c2.data.buffer_start # NULL THEN c5 ELSE c2

x86_ipm_stop_cpu_task(ctx, state, rd) ==
    LET c1 == write_msr(ctx, IA32_PERF_GLOBAL_CTRL, {})
        c2 == apic_pmi_mask(c1)
        last == c2.data.buffer_end - SizeofRecordHeader
        c3 == StopProgrammableLoop(c2, state, 0, last, rd)
        c4 == StopFixedLoop(c3, state, 0, last, rd)
        c5 == [c4 EXCEPT
                 !.data.buffer_next = c4.next,
                 !.mem.capture_end = c4.next - c4.data.buffer_start,
                 !.log = Append(@, <<"capture_end",
                                     c4.next - c4.data.buffer_start>>)]
    IN  x86_perfmon_clear_overflow_indicators(
            IF c2.data.buffer_start # NULL THEN c5 ELSE c2)

\* x86_ipm_stop refusing to run unless tracing is active.
stop_status_only_while_active ==
    IF ~supports_perfmon THEN ZX_ERR_NOT_SUPPORTED
    ELSE IF ~perfmon_state.present \/ ~perfmon_active THEN ZX_ERR_BAD_STATE
    ELSE ZX_OK

x86_ipm_stop_status ==
    IF ~supports_perfmon THEN ZX_ERR_NOT_SUPPORTED
    ELSE IF ~perfmon_state.present THEN ZX_ERR_BAD_STATE
    ELSE ZX_OK

x86_ipm_stop(rd) ==
    IF x86_ipm_stop_status # ZX_OK
    THEN /\ Returns("x86_ipm_stop", x86_ipm_stop_status)
         /\ UNCHANGED <<hw_vars, perfmon_state, perfmon_active, mem, msr,
                        pmi_masked, pmi_count, config>>
    ELSE
    LET state == perfmon_state
        done == [c \in Cpus |->
                   x86_ipm_stop_cpu_task(CpuContext(c, state), state, rd)]
        stopped == [c \in Cpus |-> done[c].data]
    IN  /\ perfmon_active' = FALSE
        /\ Broadcast(done)
        /\ mem' = [c \in Cpus |-> done[c].mem]
        /\ perfmon_state' =
               [state EXCEPT
                  !.cpu_data = x86_ipm_unmap_buffers_locked(stopped)]
        /\ ret' = [op |-> "x86_ipm_stop", status |-> ZX_OK]
        /\ UNCHANGED <<hw_vars, pmi_count, config>>

\* --------------------------------------------------------------------- fini

RECURSIVE ResetProgrammableLoop(_, _)
ResetProgrammableLoop(ctx, i) ==
    IF i >= perfmon_num_programmable_counters THEN ctx
    ELSE ResetProgrammableLoop(
             write_msr(write_msr(ctx, IA32_PERFEVTSEL_FIRST + i, {}),
                       IA32_PMC_FIRST + i, U64Zero),
             i + 1)

RECURSIVE ResetFixedLoop(_, _)
ResetFixedLoop(ctx, i) ==
    IF i >= perfmon_num_fixed_counters THEN ctx
    ELSE ResetFixedLoop(write_msr(ctx, IA32_FIXED_CTR0 + i, U64Zero), i + 1)

\* x86_ipm_reset_task leaving the programmable counters as they are.
reset_task_without_programmable(ctx) ==
    LET c0 == DEBUG_ASSERT(ctx, ~perfmon_active)
        c1 == write_msr(c0, IA32_PERF_GLOBAL_CTRL, {})
        c2 == apic_pmi_mask(c1)
        c3 == x86_perfmon_clear_overflow_indicators(c2)
        c4 == write_msr(c3, IA32_DEBUGCTL, {})
        c6 == write_msr(c4, IA32_FIXED_CTR_CTRL, {})
    IN  ResetFixedLoop(c6, 0)

x86_ipm_reset_task(ctx) ==
    LET c0 == DEBUG_ASSERT(ctx, ~perfmon_active)
        c1 == write_msr(c0, IA32_PERF_GLOBAL_CTRL, {})
        c2 == apic_pmi_mask(c1)
        c3 == x86_perfmon_clear_overflow_indicators(c2)
        c4 == write_msr(c3, IA32_DEBUGCTL, {})
        c5 == ResetProgrammableLoop(c4, 0)
        c6 == write_msr(c5, IA32_FIXED_CTR_CTRL, {})
    IN  ResetFixedLoop(c6, 0)

\* The context of a cpu for a task that gets no PerfmonState.
BareContext(c) ==
    [msr |-> msr[c], masked |-> pmi_masked[c], mem |-> mem[c],
     data |-> NewCpuData, next |-> NULL, saw_timebase |-> FALSE,
     log |-> <<>>, bad |-> FALSE]

\* The checks of x86_ipm_fini without the one on supports_perfmon.
fini_status_unprobed ==
    IF perfmon_active THEN ZX_ERR_BAD_STATE ELSE ZX_OK

x86_ipm_fini_status ==
    IF ~supports_perfmon THEN ZX_ERR_NOT_SUPPORTED
    ELSE IF perfmon_active THEN ZX_ERR_BAD_STATE
    ELSE ZX_OK

x86_ipm_fini ==
    IF x86_ipm_fini_status # ZX_OK
    THEN /\ Returns("x86_ipm_fini", x86_ipm_fini_status)
         /\ UNCHANGED <<hw_vars, perfmon_state, perfmon_active, mem, msr,
                        pmi_masked, pmi_count, config>>
    ELSE
    LET done == [c \in Cpus |-> x86_ipm_reset_task(BareContext(c))]
    IN  /\ Broadcast(done)
        /\ perfmon_state' = NoState
        \* the vmos are released with the cpu_data that referred to them
        /\ mem' = [c \in Cpus |-> ZeroMem]
        /\ ret' = [op |-> "x86_ipm_fini", status |-> ZX_OK]
        /\ UNCHANGED <<hw_vars, perfmon_active, pmi_count, config>>

\* ---------------------------------------------------------- the PMI handler

\* GLOBAL_STATUS as the handler may read it.
PmiStatuses == {{}, {0}, {32}, {0, 32}}

\* Pass A over the programmable counters: the ones that overflowed.
RECURSIVE PmiProgrammableLoop(_, _, _, _)
PmiProgrammableLoop(ctx, state, status, i) ==
    IF i >= state.num_used_programmable THEN ctx
    ELSE
    LET id == state.programmable_ids[i]
        timebase == (id = state.timebase_id)
        c1 == [ctx EXCEPT !.saw_timebase = @ \/ timebase]
        c2 == IF state.programmable_flags[i] \cap IPM_CONFIG_FLAG_PC # {}
              THEN x86_perfmon_write_pc_record(c1, id)
              ELSE x86_perfmon_write_tick_record(c1, id)
        c3 == write_msr(c2, IA32_PMC_FIRST + i,
                        state.programmable_initial_value[i])
    IN  IF status \cap IA32_PERF_GLOBAL_STATUS_PMC_OVF_MASK(i) = {}
        THEN PmiProgrammableLoop(ctx, state, status, i + 1)
        ELSE IF ~timebase
                /\ state.programmable_flags[i] \cap IPM_CONFIG_FLAG_TIMEBASE # {}
        THEN PmiProgrammableLoop(ctx, state, status, i + 1)
        ELSE PmiProgrammableLoop(c3, state, status, i + 1)

\* Pass A over the fixed counters.
RECURSIVE PmiFixedLoop(_, _, _, _)
PmiFixedLoop(ctx, state, status, i) ==
    IF i >= state.num_used_fixed THEN ctx
    ELSE
    LET hw_num == state.fixed_hw_map[i]
        c0 == DEBUG_ASSERT(ctx, hw_num < perfmon_num_fixed_counters)
        id == state.fixed_ids[i]
        timebase == (id = state.timebase_id)
        c1 == [c0 EXCEPT !.saw_timebase = @ \/ timebase]
        c2 == IF state.fixed_flags[i] \cap IPM_CONFIG_FLAG_PC # {}
              THEN x86_perfmon_write_pc_record(c1, id)
              ELSE x86_perfmon_write_tick_record(c1, id)
        c3 == write_msr(c2, IA32_FIXED_CTR0 + hw_num,
                        state.fixed_initial_value[i])
    IN  IF status \cap IA32_PERF_GLOBAL_STATUS_FIXED_OVF_MASK(hw_num) = {}
        THEN PmiFixedLoop(c0, state, status, i + 1)
        ELSE IF ~timebase
                /\ state.fixed_flags[i] \cap IPM_CONFIG_FLAG_TIMEBASE # {}
        THEN PmiFixedLoop(c0, state, status, i + 1)
        ELSE PmiFixedLoop(c3, state, status, i + 1)

\* Pass B over the programmable counters: the ones with the TIMEBASE flag.
RECURSIVE PmiTimebaseProgrammableLoop(_, _, _, _)
PmiTimebaseProgrammableLoop(ctx, state, rd, i) ==
    IF i >= state.num_used_programmable THEN ctx
    ELSE IF state.programmable_flags[i] \cap IPM_CONFIG_FLAG_TIMEBASE = {}
    THEN PmiTimebaseProgrammableLoop(ctx, state, rd, i + 1)
    ELSE
    LET id == state.programmable_ids[i]
        c1 == read_msr(ctx, IA32_PMC_FIRST + i)
        c2 == x86_perfmon_write_value_record(c1, id, rd)
        c3 == write_msr(c2, IA32_PMC_FIRST + i,
                        state.programmable_initial_value[i])
    IN  PmiTimebaseProgrammableLoop(c3, state, rd, i + 1)

\* Pass B over the fixed counters.
RECURSIVE PmiTimebaseFixedLoop(_, _, _, _)
PmiTimebaseFixedLoop(ctx, state, rd, i) ==
    IF i >= state.num_used_fixed THEN ctx
    ELSE IF state.fixed_flags[i] \cap IPM_CONFIG_FLAG_TIMEBASE = {}
    THEN PmiTimebaseFixedLoop(ctx, state, rd, i + 1)
    ELSE
    LET id == state.fixed_ids[i]
        hw_num == state.fixed_hw_map[i]
        c0 == DEBUG_ASSERT(ctx, hw_num < perfmon_num_fixed_counters)
        c1 == read_msr(c0, IA32_FIXED_CTR0 + hw_num)
        c2 == x86_perfmon_write_value_record(c1, id, rd)
        c3 == write_msr(c2, IA32_FIXED_CTR0 + hw_num,
                        state.fixed_initial_value[i])
    IN  PmiTimebaseFixedLoop(c3, state, rd, i + 1)

\* The handler asking for room for tick records only.
space_needed_for_ticks(state) ==
    (state.num_used_programmable + state.num_used_fixed) * SizeofTickRecord

\* The bytes the handler asks for before it writes anything.
space_needed(state) ==
    (state.num_used_programmable + state.num_used_fixed) * kMaxRecordSize

\* The handler clearing only the bits it read.
bits_to_clear_status_only(status) == status

\* The bits the handler writes to GLOBAL_STATUS_RESET after reading |status|.
bits_to_clear(status) ==
    LET counters == IF status \cap perfmon_counter_status_bits # {}
                    THEN perfmon_counter_status_bits ELSE {}
    IN  counters \cup IA32_PERF_GLOBAL_STATUS_UNCORE_OVF_MASK
                 \cup IA32_PERF_GLOBAL_STATUS_COND_CHGD_MASK
                 \cup status

\* pmi_interrupt_handler: the context it leaves and whether it succeeded.
pmi_interrupt_handler(ctx, state, status, rd) ==
    IF ctx.data.buffer_next + space_needed(state) > ctx.data.buffer_end
    THEN [ctx |-> SetFull(ctx), success |-> FALSE]
    ELSE
    LET c1 == read_msr(ctx, IA32_PERF_GLOBAL_STATUS)
        a1 == PmiProgrammableLoop(c1, state, status, 0)
        a2 == PmiFixedLoop(a1, state, status, 0)
        b1 == PmiTimebaseProgrammableLoop(a2, state, rd, 0)
        b2 == PmiTimebaseFixedLoop(b1, state, rd, 0)
        c2 == IF a2.saw_timebase THEN b2 ELSE a2
        c3 == [c2 EXCEPT !.data.buffer_next = c2.next]
        c4 == IF status \cap perfmon_counter_status_bits # {} THEN c3 ELSE c1
        c5 == write_msr(c4, IA32_PERF_GLOBAL_STATUS_RESET,
                        bits_to_clear(status))
    IN  [ctx |-> read_msr(c5, IA32_PERF_GLOBAL_STATUS), success |-> TRUE]

\* The PMI handler with tracing inactive, also unmasking the PMI.
apic_pmi_inactive_unmasking(cpu) ==
    /\ hwlog' = [NoLog EXCEPT ![cpu] = <<<<"apic_issue_eoi">>,
                                        <<"apic_pmi_unmask">>>>]
    /\ pmi_masked' = [pmi_masked EXCEPT ![cpu] = FALSE]
    /\ assert_failed' = FALSE
    /\ ret' = [op |-> "apic_pmi_interrupt_handler",
               status |-> "INT_NO_RESCHEDULE"]
    /\ UNCHANGED <<hw_vars, perfmon_state, perfmon_active, mem, msr,
                   pmi_count, config>>

\* The PMI handler on |cpu| when it loads perfmon_active as false.
apic_pmi_inactive(cpu) ==
    /\ hwlog' = [NoLog EXCEPT ![cpu] = <<<<"apic_issue_eoi">>>>]
    /\ assert_failed' = FALSE
    /\ ret' = [op |-> "apic_pmi_interrupt_handler",
               status |-> "INT_NO_RESCHEDULE"]
    /\ UNCHANGED <<hw_vars, perfmon_state, perfmon_active, mem, msr,
                   pmi_masked, pmi_count, config>>

\* The PMI handler as built with TRY_FREEZE_ON_PMI: the counters are not
\* turned off on entry.
apic_pmi_active_try_freeze(cpu, status, rd) ==
    LET state == perfmon_state
        h == pmi_interrupt_handler(CpuContext(cpu, state), state, status, rd)
        c2 == apic_issue_eoi(h.ctx)
        c3 == IF h.success
              THEN apic_pmi_unmask(c2)
              ELSE write_msr(c2, IA32_PERF_GLOBAL_CTRL, {})
    IN  /\ pmi_count' = pmi_count + 1
        /\ msr' = [msr EXCEPT ![cpu] = c3.msr]
        /\ pmi_masked' = [pmi_masked EXCEPT ![cpu] = c3.masked]
        /\ mem' = [mem EXCEPT ![cpu] = c3.mem]
        /\ perfmon_state' = [state EXCEPT !.cpu_data[cpu] = c3.data]
        /\ hwlog' = [NoLog EXCEPT ![cpu] = c3.log]
        /\ assert_failed' = c3.bad
        /\ ret' = [op |-> "apic_pmi_interrupt_handler",
                   status |-> "INT_NO_RESCHEDULE"]
        /\ UNCHANGED <<hw_vars, perfmon_active, config>>

\* The PMI handler on |cpu| after it loaded perfmon_active as true, with
\* GLOBAL_STATUS reading |status| and the counters reading |rd|.
apic_pmi_active(cpu, status, rd) ==
    LET state == perfmon_state
        c1 == write_msr(CpuContext(cpu, state), IA32_PERF_GLOBAL_CTRL, {})
        h == pmi_interrupt_handler(c1, state, status, rd)
        c2 == apic_issue_eoi(h.ctx)
        c3 == IF h.success
              THEN write_msr(apic_pmi_unmask(c2), IA32_PERF_GLOBAL_CTRL,
                             state.global_ctrl)
              ELSE c2
    IN  /\ pmi_count' = pmi_count + 1
        /\ msr' = [msr EXCEPT ![cpu] = c3.msr]
        /\ pmi_masked' = [pmi_masked EXCEPT ![cpu] = c3.masked]
        /\ mem' = [mem EXCEPT ![cpu] = c3.mem]
        /\ perfmon_state' = [state EXCEPT !.cpu_data[cpu] = c3.data]
        /\ hwlog' = [NoLog EXCEPT ![cpu] = c3.log]
        /\ assert_failed' = c3.bad
        /\ ret' = [op |-> "apic_pmi_interrupt_handler",
                   status |-> "INT_NO_RESCHEDULE"]
        /\ UNCHANGED <<hw_vars, perfmon_active, config>>


\* The PMI vector's handler on |cpu|, with GLOBAL_STATUS reading |status|
\* and the counters reading |rd|.
apic_pmi_interrupt_handler(cpu, status, rd) ==
    IF ~perfmon_active
    THEN apic_pmi_inactive(cpu)
    ELSE apic_pmi_active(cpu, status, rd)

\* ------------------------------------------------------------ specification

InitMachine ==
    /\ booted = FALSE
    /\ supports_perfmon = Unprobed.supports_perfmon
    /\ perfmon_version = Unprobed.perfmon_version
    /\ perfmon_num_programmable_counters =
           Unprobed.perfmon_num_programmable_counters
    /\ perfmon_programmable_counter_width =
           Unprobed.perfmon_programmable_counter_width
    /\ perfmon_num_fixed_counters = Unprobed.perfmon_num_fixed_counters
    /\ perfmon_fixed_counter_width = Unprobed.perfmon_fixed_counter_width
    /\ perfmon_unsupported_events = Unprobed.perfmon_unsupported_events
    /\ perfmon_capabilities = Unprobed.perfmon_capabilities
    /\ perfmon_max_fixed_counter_value =
           Unprobed.perfmon_max_fixed_counter_value
    /\ perfmon_max_programmable_counter_value =
           Unprobed.perfmon_max_programmable_counter_value
    /\ perfmon_counter_status_bits = Unprobed.perfmon_counter_status_bits
    /\ kGlobalCtrlWritableBits = Unprobed.kGlobalCtrlWritableBits
    /\ kFixedCounterCtrlWritableBits = Unprobed.kFixedCounterCtrlWritableBits
    /\ perfmon_state = NoState
    /\ perfmon_active = FALSE
    /\ mem = [c \in Cpus |-> ZeroMem]
    /\ msr = [c \in Cpus |-> ResetMsrs]
    /\ pmi_masked = [c \in Cpus |-> TRUE]
    /\ hwlog = NoLog
    /\ assert_failed = FALSE
    /\ pmi_count = 0
    /\ ret = [op |-> "boot", status |-> ZX_OK]

DefaultConfig ==
    MakeConfig(CtrlOk, Slots(FixedSlots, FixedUnused, FixedUnused),
               Slots(ProgSlots, ProgUnused, ProgUnused))

\* The threads that call the entry points concurrently, and what the script
\* remembers of a thread's call: the entry point, how far the call got
\* ("idle", "waiting" for perfmon_lock, "running" under it, "returned"), the
\* status it returned, whether the Session was CONFIGURED and whether the
\* system was IDLE when it was made, with no entry point in progress, and whether another thread's call was in progress then.
Threads == {"a", "b"}
NoCall ==
    [op |-> "none", phase |-> "idle", status |-> ZX_OK,
     configured |-> FALSE, idle |-> FALSE, overlap |-> FALSE]

\* The script has not started.
NoScript ==
    [pos |-> 0, inputs_ok |-> TRUE, alloc_ok |-> TRUE, all_ok |-> TRUE,
     reading |-> U64Zero, cpu |-> 0, status |-> {}, size |-> 0,
     restart |-> FALSE, op |-> "none", pending |-> {}, in_pmi |-> {},
     leaf |-> CpuidLeaf(FALSE, 0, 0, 0, 0, 0, 0),
     calls |-> [t \in Threads |-> NoCall]]

Init == InitMachine /\ config = DefaultConfig /\ script = NoScript

\* The leaves the life-cycle specification boots with.
LifeLeaves ==
    { CpuidLeaf(TRUE, 4, 1, 16, 7, 1, 64),
      CpuidLeaf(TRUE, 3, 1, 48, 7, 1, 48),
      CpuidLeaf(FALSE, 0, 0, 0, 0, 0, 0) }

Probe == \E leaf \in LifeLeaves : x86_perfmon_init(leaf)
GetProperties == x86_ipm_get_properties
InitCall == \E alloc_ok \in BOOLEAN : x86_ipm_init(alloc_ok)
AssignBuffer ==
    \E cpu \in 0 .. NumCpus, size \in VmoSizes :
        x86_ipm_assign_buffer(cpu, Vmo(size))
StageConfig == \E cfg \in LifeConfigs : x86_ipm_stage_config(cfg)
Start == \E outcome \in MapOutcomes : x86_ipm_start(outcome)
Stop == \E rd \in Readings : x86_ipm_stop(rd)
Fini == x86_ipm_fini
\* The cpu a PMI is delivered to: the last one.
PmiCpus == {NumCpus - 1}
Pmi ==
    \E cpu \in PmiCpus, status \in PmiStatuses, rd \in Readings :
        /\ perfmon_active => pmi_count < MaxPmis
        /\ apic_pmi_interrupt_handler(cpu, status, rd)

\* The driver calls the entry points in any order, before or after the
\* probe has run, and a PMI may be delivered at any time.
Next ==
    \/ Probe /\ UNCHANGED script
    \/ GetProperties /\ UNCHANGED script
    \/ InitCall /\ UNCHANGED script
    \/ AssignBuffer /\ UNCHANGED script
    \/ StageConfig /\ UNCHANGED script
    \/ Start /\ UNCHANGED script
    \/ Stop /\ UNCHANGED script
    \/ Fini /\ UNCHANGED script
    \/ Pmi /\ UNCHANGED script

Spec == Init /\ [][Next]_vars

\* ------------------------------------------- the validators, rule by rule

\* The rules a configuration has to meet, each stated on its own.
ControlViolation(cfg) ==
    \/ cfg.debug_ctrl \cap IA32_DEBUGCTL_FREEZE_PERFMON_ON_PMI_MASK # {}
    \/ ~(cfg.global_ctrl \subseteq kGlobalCtrlWritableBits)
    \/ ~(cfg.fixed_ctrl \subseteq kFixedCounterCtrlWritableBits)
    \/ ~(cfg.debug_ctrl \subseteq kDebugCtrlWritableBits)

FixedViolation(cfg) ==
    \E i \in FixedSlots :
        /\ i < perfmon_num_fixed_counters
        /\ IF \E j \in 0 .. i : cfg.fixed_ids[j] = 0
           THEN \/ cfg.fixed_ids[i] # 0
                \/ cfg.fixed_initial_value[i] # U64Zero
                \/ cfg.fixed_flags[i] # {}
           ELSE \/ U64Lt(perfmon_max_fixed_counter_value,
                         cfg.fixed_initial_value[i])
                \/ ~(cfg.fixed_flags[i] \subseteq IPM_CONFIG_FLAG_MASK)
                \/ CPUPERF_EVENT_ID_UNIT(cfg.fixed_ids[i]) # CPUPERF_UNIT_FIXED
                \/ CPUPERF_EVENT_ID_EVENT(cfg.fixed_ids[i])
                       \notin DOMAIN FixedEventTable

ProgrammableViolation(cfg) ==
    \E i \in ProgSlots :
        /\ i < perfmon_num_programmable_counters
        /\ IF \E j \in 0 .. i : cfg.programmable_ids[j] = 0
           THEN \/ cfg.programmable_ids[i] # 0
                \/ cfg.programmable_events[i] # {}
                \/ cfg.programmable_initial_value[i] # U64Zero
                \/ cfg.programmable_flags[i] # {}
           ELSE \/ ~(cfg.programmable_events[i]
                         \subseteq kEventSelectWritableBits)
                \/ U64Lt(perfmon_max_programmable_counter_value,
                         cfg.programmable_initial_value[i])
                \/ ~(cfg.programmable_flags[i]
                         \subseteq IPM_CONFIG_FLAG_MASK)

ConfigViolation(cfg) ==
    ControlViolation(cfg) \/ FixedViolation(cfg) \/ ProgrammableViolation(cfg)

\* ------------------------------------- specification: staging one config

\* The driver holds one configuration out of AllConfigs and stages it on
\* whatever hardware the probe found.
InitConfig == InitMachine /\ config \in AllConfigs /\ script = NoScript

ConfigLeaves ==
    { CpuidLeaf(TRUE, 4, IPM_MAX_PROGRAMMABLE_COUNTERS, 48, 7,
                IPM_MAX_FIXED_COUNTERS, 48),
      CpuidLeaf(TRUE, 4, 1, 16, 7, 1, 64),
      CpuidLeaf(TRUE, 3, 1, 48, 7, 1, 48) }

ProbeConfig == \E leaf \in ConfigLeaves : x86_perfmon_init(leaf)
StageHeld == x86_ipm_stage_config(config)

NextConfig ==
    \/ ProbeConfig /\ UNCHANGED script
    \/ InitCall /\ UNCHANGED script
    \/ StageHeld /\ UNCHANGED script
    \/ Fini /\ UNCHANGED script

SpecConfig == InitConfig /\ [][NextConfig]_vars

\* ------------------------------------- specification: the driver's script

\* probe; init; stage_config; assign_buffer for cpu 0, 1, ...; start; any
\* PMIs; stop; fini.  The script goes on whatever the calls return, and
\* records whether every call returned OK (all_ok), whether the state could
\* be allocated (alloc_ok) and whether the configuration passed the rules,
\* every buffer was large enough and every mapping succeeded (inputs_ok).
SeqInit == NoScript.pos + 1
SeqStage == SeqInit + 1
SeqAssign == SeqStage + 1
SeqStart == SeqAssign + NumCpus
SeqStop == SeqStart + 1
SeqFini == SeqStop + 1
SeqDone == SeqFini + 1

Advance(inputs_good, alloc_good) ==
    script' = [pos |-> script.pos + 1,
               inputs_ok |-> script.inputs_ok /\ inputs_good,
               alloc_ok |-> script.alloc_ok /\ alloc_good,
               all_ok |-> script.all_ok /\ ret'.status = ZX_OK,
               reading |-> script.reading, cpu |-> script.cpu,
               status |-> script.status, size |-> script.size,
               restart |-> script.restart]

InitSeq == InitMachine /\ config \in LifeConfigs /\ script = NoScript

SeqProbe ==
    /\ script.pos = 0
    /\ Probe
    /\ script' = [script EXCEPT !.pos = SeqInit]
SeqInitCall ==
    /\ script.pos = SeqInit
    /\ \E alloc_ok \in BOOLEAN :
           x86_ipm_init(alloc_ok) /\ Advance(TRUE, alloc_ok)
SeqStageConfig ==
    /\ script.pos = SeqStage
    /\ x86_ipm_stage_config(config)
    /\ Advance(~ConfigViolation(config), TRUE)
SeqAssignBuffer ==
    /\ script.pos \in SeqAssign .. SeqStart - 1
    /\ \E size \in VmoSizes :
           /\ x86_ipm_assign_buffer(script.pos - SeqAssign, Vmo(size))
           /\ Advance(size >= min_size_needed, TRUE)
SeqStartCall ==
    /\ script.pos = SeqStart
    /\ \E outcome \in MapOutcomes :
           x86_ipm_start(outcome) /\ Advance(outcome.call = "none", TRUE)
SeqPmi == script.pos = SeqStop /\ Pmi /\ UNCHANGED script
SeqStopCall == script.pos = SeqStop /\ Stop /\ Advance(TRUE, TRUE)
SeqFiniCall == script.pos = SeqFini /\ Fini /\ Advance(TRUE, TRUE)

NextSeq ==
    \/ SeqProbe
    \/ SeqInitCall
    \/ SeqStageConfig
    \/ SeqAssignBuffer
    \/ SeqStartCall
    \/ SeqPmi
    \/ SeqStopCall
    \/ SeqFiniCall

SpecSeq == InitSeq /\ [][NextSeq]_vars

\* ------------------------------------------- counter values: held inputs

\* Counter widths the probe accepts, from the narrowest to the widest.
ValueLeaves ==
    { CpuidLeaf(TRUE, 4, 1, 16, 7, 1, 64),
      CpuidLeaf(TRUE, 4, 1, 32, 7, 1, 64),
      CpuidLeaf(TRUE, 4, 1, 48, 7, 1, 17),
      CpuidLeaf(TRUE, 4, 1, 64, 7, 1, 63) }

\* Initial values of the programmable and of the fixed counter: 0 and 16
\* below the top of 16, 32 and 64 bits.
InitialValues ==
    { <<U64Zero, U64Zero>>,
      <<U64(65520), U64(65520)>>,
      <<U64(65520), <<65520, 65535, 65535, 65535>>>>,
      <<<<65520, 65535, 0, 0>>, <<65520, 65535, 65535, 65535>>>>,
      <<<<65520, 65535, 0, 0>>, U64(65520)>>,
      <<<<65520, 65535, 65535, 65535>>, <<65520, 65535, 0, 0>>>> }

\* What a counter may read at stop.
ValueReadings ==
    { U64Zero, U64(5), U64(65535), <<5, 0, 1, 0>>,
      <<65535, 65535, 65535, 32767>>, U64AllOnes }

\* One programmable and one fixed counter with the given initial values.
ValueConfigs ==
    { MakeConfig(CtrlOk,
                 Slots(FixedSlots, FixedSlot(FixedId(1), iv[2], {}),
                       FixedUnused),
                 Slots(ProgSlots, ProgSlot(ArchId(1), {0, 22}, iv[1], {}),
                       ProgUnused)) :
        iv \in InitialValues }

InitValue == InitMachine /\ config \in ValueConfigs /\ script = NoScript

ProbeValue == \E leaf \in ValueLeaves : x86_perfmon_init(leaf)
\* A counter never reads above its maximum value; the script remembers what
\* the counters read.
StopValue ==
    \E rd \in ValueReadings :
        /\ U64Le(rd, perfmon_max_programmable_counter_value)
        /\ U64Le(rd, perfmon_max_fixed_counter_value)
        /\ x86_ipm_stop(rd)
        /\ script' = [script EXCEPT !.reading = rd]

NextValue ==
    \/ ProbeValue /\ UNCHANGED script
    \/ InitCall /\ UNCHANGED script
    \/ AssignBuffer /\ UNCHANGED script
    \/ StageHeld /\ UNCHANGED script
    \/ Start /\ UNCHANGED script
    \/ StopValue
    \/ Fini /\ UNCHANGED script

SpecValue == InitValue /\ [][NextValue]_vars

\* ------------------------------------------------- tracing: held inputs

\* PMIs a trace takes before the model stops delivering them.
MaxTracePmis == 3

\* Two programmable counters and a fixed one, each raising PMIs.
ThreeCounters ==
    MakeConfig(CtrlPart({0, 1, 32}, {0, 3}, {}, CPUPERF_EVENT_ID_NONE),
               Slots(FixedSlots, FixedPc, FixedUnused),
               [i \in ProgSlots |->
                  IF i = 0 THEN ProgPc ELSE IF i = 1 THEN ProgTick
                  ELSE ProgUnused])

\* Counter 0 is named as the timebase; counter 1 carries the TIMEBASE flag.
TimebaseCounters ==
    MakeConfig(CtrlPart({0, 1}, {}, {}, ProgTick.id),
               Slots(FixedSlots, FixedUnused, FixedUnused),
               [i \in ProgSlots |->
                  IF i = 0 THEN ProgTick ELSE IF i = 1 THEN ProgTimebase
                  ELSE ProgUnused])

TraceConfigs == {ThreeCounters, TimebaseCounters}

\* Every PMI of a trace reports a counter of ThreeCounters as overflowed.
TraceStatuses == {{0}, {1}, {0, 1, 32}, {62}}

InitTrace == InitMachine /\ config \in TraceConfigs /\ script = NoScript

ProbeTrace ==
    x86_perfmon_init(CpuidLeaf(TRUE, 4, IPM_MAX_PROGRAMMABLE_COUNTERS, 48, 7,
                               IPM_MAX_FIXED_COUNTERS, 48))
\* The script remembers which cpu took the PMI and what it read.
PmiTrace ==
    \E cpu \in PmiCpus, status \in TraceStatuses, rd \in Readings :
        /\ perfmon_active => pmi_count < MaxTracePmis
        /\ apic_pmi_interrupt_handler(cpu, status, rd)
        /\ script' = [script EXCEPT !.cpu = cpu, !.status = status,
                                    !.reading = rd]

\* The script remembers whether the start found what an earlier trace left
\* in a buffer: records, or the FULL flag.
StartTrace ==
    /\ Start
    /\ script' =
           [script EXCEPT
              !.restart =
                  \E c \in Cpus :
                      \/ mem[c].records # <<>>
                      \/ mem[c].flags \cap CPUPERF_BUFFER_FLAG_FULL # {}]

NextTrace ==
    \/ ProbeTrace /\ UNCHANGED script
    \/ InitCall /\ UNCHANGED script
    \/ AssignBuffer /\ UNCHANGED script
    \/ StageHeld /\ UNCHANGED script
    \/ StartTrace
    \/ PmiTrace
    \/ Stop /\ UNCHANGED script
    \/ Fini /\ UNCHANGED script

SpecTrace == InitTrace /\ [][NextTrace]_vars

\* ------------------------------------------ assigning buffers: any size

\* Sizes of the vmo handed to assign_buffer, around the minimum.
AssignSizes ==
    {0, min_size_needed - 1, min_size_needed, min_size_needed + 1,
     min_size_needed + 8}

\* The script remembers the cpu and the size of the call.
AssignSized ==
    \E cpu \in 0 .. NumCpus + 1, size \in AssignSizes :
        /\ x86_ipm_assign_buffer(cpu, Vmo(size))
        /\ script' = [script EXCEPT !.cpu = cpu, !.size = size]

NextAssign ==
    \/ Probe /\ UNCHANGED script
    \/ InitCall /\ UNCHANGED script
    \/ AssignSized
    \/ Fini /\ UNCHANGED script

SpecAssign == Init /\ [][NextAssign]_vars

\* ------------------------------------ interleavings: broadcasts and PMIs
\*
\* start, stop and fini are taken in steps: the part before mp_sync_exec,
\* the task on each cpu, and the part after mp_sync_exec returns.  The PMI
\* handler is taken in two steps: the load of perfmon_active and the rest.
\* The script holds the control state: the entry point that holds
\* perfmon_lock and is inside mp_sync_exec (op), the cpus that have not run
\* its task yet (pending) and the cpus inside a PMI handler that loaded
\* perfmon_active as true (in_pmi).

\* PMIs a trace handles before the model stops delivering them.
MaxStepPmis == 2

\* What a PMI reads from GLOBAL_STATUS: one counter or all three overflowed.
StepStatuses == {{0}, {0, 1, 32}}

InitSteps == InitMachine /\ config = ThreeCounters /\ script = NoScript

\* perfmon_lock is free.
Unlocked == script.op = "none"

\* mp_sync_exec begins: every cpu is to run the task of |op|.
SyncExecBegin(op) ==
    /\ script' = [script EXCEPT !.op = op, !.pending = Cpus]
    /\ ret' = [op |-> "mp_sync_exec", status |-> ZX_OK]
    /\ hwlog' = NoLog
    /\ assert_failed' = FALSE

\* x86_ipm_start publishing perfmon_active before the broadcast.
start_begin_publishing_early(outcome) ==
    /\ Unlocked
    /\ IF x86_ipm_start_status # ZX_OK
       THEN /\ Returns("x86_ipm_start", x86_ipm_start_status)
            /\ UNCHANGED <<hw_vars, perfmon_state, perfmon_active, mem, msr,
                           pmi_masked, pmi_count, config, script>>
       ELSE
       LET m == x86_ipm_map_buffers_locked(perfmon_state, outcome)
       IN  /\ perfmon_state' = [perfmon_state EXCEPT !.cpu_data = m.cpu_data]
           /\ mem' = m.mem
           /\ IF m.status # ZX_OK
              THEN /\ Returns("x86_ipm_start", m.status)
                   /\ UNCHANGED <<script, perfmon_active>>
              ELSE /\ SyncExecBegin("x86_ipm_start")
                   /\ perfmon_active' = TRUE
           /\ UNCHANGED <<hw_vars, msr, pmi_masked, pmi_count, config>>

\* x86_ipm_start up to its call of mp_sync_exec.
x86_ipm_start_begin(outcome) ==
    /\ Unlocked
    /\ IF x86_ipm_start_status # ZX_OK
       THEN /\ Returns("x86_ipm_start", x86_ipm_start_status)
            /\ UNCHANGED <<hw_vars, perfmon_state, perfmon_active, mem, msr,
                           pmi_masked, pmi_count, config, script>>
       ELSE
       LET m == x86_ipm_map_buffers_locked(perfmon_state, outcome)
       IN  /\ perfmon_state' = [perfmon_state EXCEPT !.cpu_data = m.cpu_data]
           /\ mem' = m.mem
           /\ IF m.status # ZX_OK
              THEN Returns("x86_ipm_start", m.status) /\ UNCHANGED script
              ELSE SyncExecBegin("x86_ipm_start")
           /\ UNCHANGED <<hw_vars, perfmon_active, msr, pmi_masked,
                          pmi_count, config>>

\* x86_ipm_start writing the headers' capture_end after the broadcast.
start_end_clearing_capture_end ==
    /\ script.op = "x86_ipm_start" /\ script.pending = {}
    /\ perfmon_active' = TRUE
    /\ pmi_count' = 0
    /\ mem' = [c \in Cpus |-> [mem[c] EXCEPT !.capture_end = 0]]
    /\ ret' = [op |-> "x86_ipm_start", status |-> ZX_OK]
    /\ script' = [script EXCEPT !.op = "none"]
    /\ UNCHANGED <<hw_vars, perfmon_state, msr, pmi_masked, hwlog,
                   assert_failed, config>>

\* x86_ipm_start after mp_sync_exec returned.
x86_ipm_start_end ==
    /\ script.op = "x86_ipm_start" /\ script.pending = {}
    /\ perfmon_active' = TRUE
    /\ pmi_count' = 0
    /\ ret' = [op |-> "x86_ipm_start", status |-> ZX_OK]
    /\ script' = [script EXCEPT !.op = "none"]
    /\ UNCHANGED <<hw_vars, perfmon_state, mem, msr, pmi_masked, hwlog,
                   assert_failed, config>>

\* x86_ipm_stop leaving perfmon_active as it is before the broadcast.
stop_begin_keeping_active ==
    /\ Unlocked
    /\ IF x86_ipm_stop_status # ZX_OK
       THEN Returns("x86_ipm_stop", x86_ipm_stop_status) /\ UNCHANGED script
       ELSE SyncExecBegin("x86_ipm_stop")
    /\ UNCHANGED <<hw_vars, perfmon_state, perfmon_active, mem, msr,
                   pmi_masked, pmi_count, config>>

\* x86_ipm_stop up to its call of mp_sync_exec.
x86_ipm_stop_begin ==
    /\ Unlocked
    /\ IF x86_ipm_stop_status # ZX_OK
       THEN /\ Returns("x86_ipm_stop", x86_ipm_stop_status)
            /\ UNCHANGED <<script, perfmon_active>>
       ELSE /\ perfmon_active' = FALSE
            /\ SyncExecBegin("x86_ipm_stop")
    /\ UNCHANGED <<hw_vars, perfmon_state, mem, msr, pmi_masked, pmi_count,
                   config>>

\* x86_ipm_stop after mp_sync_exec returned.
x86_ipm_stop_end ==
    /\ script.op = "x86_ipm_stop" /\ script.pending = {}
    /\ perfmon_state' =
           [perfmon_state EXCEPT
              !.cpu_data = x86_ipm_unmap_buffers_locked(@)]
    /\ ret' = [op |-> "x86_ipm_stop", status |-> ZX_OK]
    /\ script' = [script EXCEPT !.op = "none"]
    /\ UNCHANGED <<hw_vars, perfmon_active, mem, msr, pmi_masked, pmi_count,
                   hwlog, assert_failed, config>>

\* x86_ipm_fini up to its call of mp_sync_exec.
x86_ipm_fini_begin ==
    /\ Unlocked
    /\ IF x86_ipm_fini_status # ZX_OK
       THEN Returns("x86_ipm_fini", x86_ipm_fini_status) /\ UNCHANGED script
       ELSE SyncExecBegin("x86_ipm_fini")
    /\ UNCHANGED <<hw_vars, perfmon_state, perfmon_active, mem, msr,
                   pmi_masked, pmi_count, config>>

\* x86_ipm_fini after mp_sync_exec returned.
x86_ipm_fini_end ==
    /\ script.op = "x86_ipm_fini" /\ script.pending = {}
    /\ perfmon_state' = NoState
    /\ mem' = [c \in Cpus |-> ZeroMem]
    /\ ret' = [op |-> "x86_ipm_fini", status |-> ZX_OK]
    /\ script' = [script EXCEPT !.op = "none"]
    /\ UNCHANGED <<hw_vars, perfmon_active, msr, pmi_masked, pmi_count,
                   hwlog, assert_failed, config>>

\* mp_sync_exec runs the task on |cpu|: with interrupts disabled, so not
\* while the cpu is inside the PMI handler.
mp_sync_exec(cpu, rd) ==
    /\ ~Unlocked
    /\ cpu \in script.pending
    /\ cpu \notin script.in_pmi
    /\ LET state == perfmon_state
           ctx == CASE script.op = "x86_ipm_start" ->
                         x86_ipm_start_cpu_task(CpuContext(cpu, state), state)
                    [] script.op = "x86_ipm_stop" ->
                         x86_ipm_stop_cpu_task(CpuContext(cpu, state), state,
                                               rd)
                    [] script.op = "x86_ipm_fini" ->
                         x86_ipm_reset_task(BareContext(cpu))
       IN  /\ msr' = [msr EXCEPT ![cpu] = ctx.msr]
           /\ pmi_masked' = [pmi_masked EXCEPT ![cpu] = ctx.masked]
           /\ hwlog' = [NoLog EXCEPT ![cpu] = ctx.log]
           /\ assert_failed' = ctx.bad
           /\ IF script.op = "x86_ipm_stop"
              THEN /\ mem' = [mem EXCEPT ![cpu] = ctx.mem]
                   /\ perfmon_state' =
                          [state EXCEPT !.cpu_data[cpu] = ctx.data]
              ELSE UNCHANGED <<mem, perfmon_state>>
    /\ ret' = [op |-> "task", status |-> ZX_OK]
    /\ script' = [script EXCEPT !.pending = @ \ {cpu}]
    /\ UNCHANGED <<hw_vars, perfmon_active, pmi_count, config>>

\* The PMI handler on |cpu| loads perfmon_active: false ends the handler
\* with an EOI, true takes it into its body.
PmiEnter ==
    \E cpu \in PmiCpus \ script.in_pmi :
        IF ~perfmon_active
        THEN apic_pmi_inactive(cpu) /\ UNCHANGED script
        ELSE /\ pmi_count + Cardinality(script.in_pmi) < MaxStepPmis
             /\ script' = [script EXCEPT !.in_pmi = @ \cup {cpu}]
             /\ ret' = [op |-> "atomic_load", status |-> ZX_OK]
             /\ hwlog' = NoLog
             /\ assert_failed' = FALSE
             /\ UNCHANGED <<hw_vars, perfmon_state, perfmon_active, mem, msr,
                            pmi_masked, pmi_count, config>>

\* The rest of the handler, whatever perfmon_active has become.
PmiBody ==
    \E cpu \in script.in_pmi, status \in StepStatuses, rd \in Readings :
        /\ apic_pmi_active(cpu, status, rd)
        /\ script' = [script EXCEPT !.in_pmi = @ \ {cpu}, !.cpu = cpu,
                                    !.status = status, !.reading = rd]

StartBegin == \E outcome \in MapOutcomes : x86_ipm_start_begin(outcome)
SyncExecTask == \E cpu \in Cpus, rd \in Readings : mp_sync_exec(cpu, rd)

\* The entry points that do not broadcast run under perfmon_lock as a whole.
NextSteps ==
    \/ ProbeTrace /\ UNCHANGED script
    \/ Unlocked /\ InitCall /\ UNCHANGED script
    \/ Unlocked /\ AssignBuffer /\ UNCHANGED script
    \/ Unlocked /\ StageHeld /\ UNCHANGED script
    \/ StartBegin
    \/ x86_ipm_start_end
    \/ x86_ipm_stop_begin
    \/ x86_ipm_stop_end
    \/ x86_ipm_fini_begin
    \/ x86_ipm_fini_end
    \/ SyncExecTask
    \/ PmiEnter
    \/ PmiBody

SpecSteps == InitSteps /\ [][NextSteps]_vars

\* ------------------------------------- two threads at the entry points
\*
\* Each thread calls init or start; the call waits for perfmon_lock, runs
\* under it (start in the steps of the small-step specification) and
\* returns.  The other entry points are called while no thread's call is in
\* progress.

CallOps == {"x86_ipm_init", "x86_ipm_start"}

\* The Session has a staged configuration and a buffer on every cpu, and is
\* not tracing.
Configured ==
    /\ perfmon_state.present /\ ~perfmon_active
    /\ perfmon_state.staged
    /\ \A c \in Cpus : perfmon_state.cpu_data[c].buffer_vmo.present

\* Supported hardware without a Session.
Idle == supports_perfmon /\ ~perfmon_state.present /\ ~perfmon_active

InCall(t) == script.calls[t].phase \in {"waiting", "running"}
NoCalls == \A t \in Threads : script.calls[t].phase = "idle"
LockHeld == \E t \in Threads : script.calls[t].phase = "running"

\* Thread t calls |op| and reaches the AutoLock at its top.
Call(t, op) ==
    /\ script.calls[t].phase = "idle"
    /\ script' =
           [script EXCEPT
              !.calls[t] =
                  [op |-> op, phase |-> "waiting", status |-> ZX_OK,
                   configured |-> Configured /\ Unlocked,
                   idle |-> Idle /\ Unlocked,
                   overlap |-> \E u \in Threads \ {t} : InCall(u)]]
    /\ UNCHANGED <<hw_vars, perfmon_state, perfmon_active, mem, msr,
                   pmi_masked, hwlog, assert_failed, pmi_count, config, ret>>

\* An AutoLock that takes perfmon_lock while another thread holds it.
auto_lock_without_exclusion(t) ==
    /\ script.calls[t].phase = "waiting"
    /\ Unlocked
    /\ script' = [script EXCEPT !.calls[t].phase = "running"]
    /\ ret' = [op |-> "AutoLock", status |-> ZX_OK]
    /\ UNCHANGED <<hw_vars, perfmon_state, perfmon_active, mem, msr,
                   pmi_masked, hwlog, assert_failed, pmi_count, config>>

\* AutoLock al(&perfmon_lock): thread t takes the lock once no thread and no
\* other entry point holds it.
AutoLock(t) ==
    /\ script.calls[t].phase = "waiting"
    /\ ~LockHeld
    /\ Unlocked
    /\ script' = [script EXCEPT !.calls[t].phase = "running"]
    /\ ret' = [op |-> "AutoLock", status |-> ZX_OK]
    /\ UNCHANGED <<hw_vars, perfmon_state, perfmon_active, mem, msr,
                   pmi_masked, hwlog, assert_failed, pmi_count, config>>

\* The body of the call of the thread that holds the lock has not begun.
BodyDue(op) ==
    /\ ret.op = "AutoLock"
    /\ \E t \in Threads :
           script.calls[t].phase = "running" /\ script.calls[t].op = op

\* The entry point returned to thread t, releasing the lock.
Return(t) ==
    /\ script.calls[t].phase = "running"
    /\ Unlocked
    /\ ret.op = script.calls[t].op
    /\ script' = [script EXCEPT !.calls[t].phase = "returned",
                                !.calls[t].status = ret.status]
    /\ UNCHANGED <<hw_vars, perfmon_state, perfmon_active, mem, msr,
                   pmi_masked, hwlog, assert_failed, pmi_count, config, ret>>

\* Both threads are done with their calls; the script forgets them.
Forget ==
    /\ \A t \in Threads : ~InCall(t)
    /\ ~NoCalls
    /\ script' = [script EXCEPT !.calls = [t \in Threads |-> NoCall]]
    /\ UNCHANGED <<hw_vars, perfmon_state, perfmon_active, mem, msr,
                   pmi_masked, hwlog, assert_failed, pmi_count, config, ret>>

ThreadCall == \E t \in Threads, op \in CallOps : Call(t, op)
ThreadLock == \E t \in Threads : AutoLock(t)
ThreadReturn == \E t \in Threads : Return(t)

NextThreads ==
    \/ NoCalls /\ ProbeTrace /\ UNCHANGED script
    \/ NoCalls /\ Unlocked /\ InitCall /\ UNCHANGED script
    \/ NoCalls /\ Unlocked /\ AssignBuffer /\ UNCHANGED script
    \/ NoCalls /\ Unlocked /\ StageHeld /\ UNCHANGED script
    \/ NoCalls /\ x86_ipm_stop_begin
    \/ x86_ipm_stop_end
    \/ NoCalls /\ x86_ipm_fini_begin
    \/ x86_ipm_fini_end
    \/ ThreadCall
    \/ ThreadLock
    \/ BodyDue("x86_ipm_init") /\ InitCall /\ UNCHANGED script
    \/ BodyDue("x86_ipm_start") /\ StartBegin
    \/ x86_ipm_start_end
    \/ SyncExecTask
    \/ ThreadReturn
    \/ Forget

SpecThreads == InitSteps /\ [][NextThreads]_vars

\* -------------------------------------------- the probe: any cpuid leaf
\*
\* The machine boots with any of CpuidLeaves; the script remembers the leaf.

ProbeLeaf ==
    \E leaf \in CpuidLeaves :
        /\ x86_perfmon_init(leaf)
        /\ script' = [script EXCEPT !.leaf = leaf]

NextProbe ==
    \/ ProbeLeaf
    \/ GetProperties /\ UNCHANGED script
    \/ InitCall /\ UNCHANGED script
    \/ AssignBuffer /\ UNCHANGED script
    \/ Fini /\ UNCHANGED script

SpecProbe == Init /\ [][NextProbe]_vars

\* ------------------------------------------------------------------ claims

ApiOp(op) == ret'.op = op
NoMsrWrite(log) ==
    \A c \in Cpus : \A k \in 1 .. Len(log[c]) : log[c][k][1] # "write_msr"
BufferMapped(c) ==
    perfmon_state.present /\ perfmon_state.cpu_data[c].buffer_mapping

\* C3, as the claim states it: while a buffer is mapped buffer_next lies
\* between the end of the buffer header and buffer_end, and no record that
\* the PMI handler or the stop task wrote, nor the capture_end the stop task
\* stored from buffer_next, lies beyond the end of the buffer.
C3_BufferBounds ==
    \A c \in Cpus :
        /\ BufferMapped(c) =>
             LET data == perfmon_state.cpu_data[c]
             IN  /\ data.buffer_start + SizeofBufferHeader <= data.buffer_next
                 /\ data.buffer_next <= data.buffer_end
        /\ (perfmon_state.present /\ mem[c].version # 0) =>
             LET size == perfmon_state.cpu_data[c].buffer_size
             IN  /\ mem[c].capture_end <= size
                 /\ \A k \in 1 .. Len(mem[c].records) :
                        mem[c].records[k].at + mem[c].records[k].size <= size

\* C4: while tracing is active the state exists and every cpu has a
\* mapping, a non-null buffer_start and buffer_end = buffer_start + size.
C4_ActiveMapped ==
    perfmon_active =>
        /\ perfmon_state.present
        /\ \A c \in Cpus :
             LET data == perfmon_state.cpu_data[c]
             IN  /\ data.buffer_mapping
                 /\ data.buffer_start # NULL
                 /\ data.buffer_end = data.buffer_start + data.buffer_size
                 /\ data.buffer_start < data.buffer_end

C4_Witness ==
    /\ perfmon_active
    /\ ret.op = "x86_ipm_start" /\ ret.status = ZX_OK
    /\ \A c \in Cpus : perfmon_state.cpu_data[c].buffer_mapping

\* C5: while tracing is active, init, stage_config, assign_buffer, start and
\* fini return BAD_STATE and change neither the state, the mappings,
\* perfmon_active nor any MSR; stop returns OK and leaves tracing inactive
\* with the state retained.
C5_Running ==
    [][perfmon_active =>
         /\ (\/ ApiOp("x86_ipm_init") \/ ApiOp("x86_ipm_stage_config")
             \/ ApiOp("x86_ipm_assign_buffer") \/ ApiOp("x86_ipm_start")
             \/ ApiOp("x86_ipm_fini"))
            => /\ ret'.status = ZX_ERR_BAD_STATE
               /\ UNCHANGED <<perfmon_state, perfmon_active, mem, msr,
                              pmi_masked>>
               /\ NoMsrWrite(hwlog')
         /\ ApiOp("x86_ipm_stop")
            => /\ ret'.status = ZX_OK
               /\ ~perfmon_active'
               /\ perfmon_state'.present]_vars

C5_Witness ==
    /\ perfmon_active
    /\ ret.op = "x86_ipm_assign_buffer" /\ ret.status = ZX_ERR_BAD_STATE

\* C6, as the claim states it: with no state on supported hardware,
\* stage_config, assign_buffer, start and stop return BAD_STATE and create no
\* state, init returns OK and creates one, fini returns OK and creates none.
C6_IdleInitAlwaysOk ==
    [][Idle =>
         /\ (\/ ApiOp("x86_ipm_stage_config") \/ ApiOp("x86_ipm_assign_buffer")
             \/ ApiOp("x86_ipm_start") \/ ApiOp("x86_ipm_stop"))
            => ret'.status = ZX_ERR_BAD_STATE /\ ~perfmon_state'.present
         /\ ApiOp("x86_ipm_init")
            => ret'.status = ZX_OK /\ perfmon_state'.present
         /\ ApiOp("x86_ipm_fini")
            => /\ ret'.status = ZX_OK
               /\ ~perfmon_state'.present /\ ~perfmon_active']_vars

\* C6, amended: as above, except that init returns OK and creates the state
\* or, when the state cannot be allocated, returns NO_MEMORY and creates none.
C6_Idle ==
    [][Idle =>
         /\ (\/ ApiOp("x86_ipm_stage_config") \/ ApiOp("x86_ipm_assign_buffer")
             \/ ApiOp("x86_ipm_start") \/ ApiOp("x86_ipm_stop"))
            => ret'.status = ZX_ERR_BAD_STATE /\ ~perfmon_state'.present
         /\ ApiOp("x86_ipm_init")
            => \/ ret'.status = ZX_OK /\ perfmon_state' = NewState
               \/ ret'.status = ZX_ERR_NO_MEMORY /\ ~perfmon_state'.present
         /\ ApiOp("x86_ipm_fini")
            => /\ ret'.status = ZX_OK
               /\ ~perfmon_state'.present /\ ~perfmon_active']_vars

C6_Witness ==
    /\ Idle
    /\ ret.op = "x86_ipm_init" /\ ret.status = ZX_ERR_NO_MEMORY

\* C7, as the claim states it: start on a state for which no stage_config
\* has succeeded returns BAD_STATE, writes no MSR and leaves tracing inactive.
C7_StartUnstaged ==
    [][(/\ supports_perfmon /\ ~perfmon_active
        /\ perfmon_state.present /\ ~perfmon_state.staged
        /\ ApiOp("x86_ipm_start"))
       => /\ ret'.status = ZX_ERR_BAD_STATE
          /\ NoMsrWrite(hwlog') /\ msr' = msr
          /\ ~perfmon_active']_vars

\* C8: on unsupported hardware, before the probe included, each of the
\* seven operations returns NOT_SUPPORTED, and no step creates a state, sets
\* perfmon_active or writes an MSR.
C8_Unsupported ==
    [][~supports_perfmon =>
         /\ (\/ ApiOp("x86_ipm_get_properties") \/ ApiOp("x86_ipm_init")
             \/ ApiOp("x86_ipm_assign_buffer") \/ ApiOp("x86_ipm_stage_config")
             \/ ApiOp("x86_ipm_start") \/ ApiOp("x86_ipm_stop")
             \/ ApiOp("x86_ipm_fini"))
            => ret'.status = ZX_ERR_NOT_SUPPORTED
         /\ ~perfmon_state'.present
         /\ ~perfmon_active'
         /\ NoMsrWrite(hwlog') /\ msr' = msr]_vars

C8_Witness ==
    /\ ~booted /\ ~supports_perfmon
    /\ ret.op = "x86_ipm_fini" /\ ret.status = ZX_ERR_NOT_SUPPORTED

C2_FailedStageKeepsState ==
    [][(ApiOp("x86_ipm_stage_config") /\ ret'.status = ZX_ERR_INVALID_ARGS)
       => perfmon_state' = perfmon_state]_vars

StagedHere ==
    /\ ret.op = "x86_ipm_stage_config"
    /\ supports_perfmon /\ perfmon_state.present /\ ~perfmon_active

\* C9: on a state that is not active, stage_config returns INVALID_ARGS
\* exactly when the configuration breaks a rule of the control, the fixed
\* counter or the programmable counter validator, and OK otherwise.
C9_StageStatus ==
    StagedHere =>
        ret.status = IF ConfigViolation(config)
                     THEN ZX_ERR_INVALID_ARGS ELSE ZX_OK

C9_Witness ==
    /\ StagedHere /\ ret.status = ZX_ERR_INVALID_ARGS
    /\ ~ControlViolation(config) /\ ~FixedViolation(config)
    /\ ProgrammableViolation(config)

\* C10, as the claim states it: after a stage_config that returned OK the
\* ids of the state are front-packed over all slots, a slot with a zero id
\* has zero initial value, flags and event, and a slot with a nonzero id has
\* an initial value within the counter's maximum and flags within the mask.
C10_StagedArrays ==
    (StagedHere /\ ret.status = ZX_OK) =>
        LET st == perfmon_state
        IN  /\ \A i \in FixedSlots :
                 IF st.fixed_ids[i] = 0
                 THEN /\ \A j \in FixedSlots : j > i => st.fixed_ids[j] = 0
                      /\ st.fixed_initial_value[i] = U64Zero
                      /\ st.fixed_flags[i] = {}
                 ELSE /\ U64Le(st.fixed_initial_value[i],
                               perfmon_max_fixed_counter_value)
                      /\ st.fixed_flags[i] \subseteq IPM_CONFIG_FLAG_MASK
            /\ \A i \in ProgSlots :
                 IF st.programmable_ids[i] = 0
                 THEN /\ \A j \in ProgSlots :
                            j > i => st.programmable_ids[j] = 0
                      /\ st.programmable_initial_value[i] = U64Zero
                      /\ st.programmable_flags[i] = {}
                      /\ st.events[i] = {}
                 ELSE /\ U64Le(st.programmable_initial_value[i],
                               perfmon_max_programmable_counter_value)
                      /\ st.programmable_flags[i]
                             \subseteq IPM_CONFIG_FLAG_MASK

\* The writes of MSR |addr| that the last operation made on cpu c, in order.
RECURSIVE WritesIn(_, _)
WritesIn(log, addr) ==
    IF log = <<>> THEN <<>>
    ELSE LET e == Head(log)
         IN  IF e[1] = "write_msr" /\ e[2] = addr
             THEN <<e[3]>> \o WritesIn(Tail(log), addr)
             ELSE WritesIn(Tail(log), addr)
WritesOf(c, addr) == WritesIn(hwlog[c], addr)
AllWithin(values, mask) ==
    \A k \in 1 .. Len(values) : values[k] \subseteq mask

\* C11: whatever stage_config calls came before, every value that a
\* successful start or the PMI handler writes to GLOBAL_CTRL, FIXED_CTR_CTRL
\* or DEBUGCTL on any cpu has its bits within kGlobalCtrlWritableBits,
\* kFixedCounterCtrlWritableBits and kDebugCtrlWritableBits respectively.
C11_WritableBits ==
    ret.op \in {"x86_ipm_start", "apic_pmi_interrupt_handler"} =>
        \A c \in Cpus :
            /\ AllWithin(WritesOf(c, IA32_PERF_GLOBAL_CTRL),
                         kGlobalCtrlWritableBits)
            /\ AllWithin(WritesOf(c, IA32_FIXED_CTR_CTRL),
                         kFixedCounterCtrlWritableBits)
            /\ AllWithin(WritesOf(c, IA32_DEBUGCTL), kDebugCtrlWritableBits)

C11_Witness ==
    /\ ret.op = "x86_ipm_start" /\ ret.status = ZX_OK
    /\ perfmon_state.staged
    /\ \A c \in Cpus :
           /\ WritesOf(c, IA32_PERF_GLOBAL_CTRL) = <<perfmon_state.global_ctrl>>
           /\ perfmon_state.global_ctrl # {}
           /\ Len(WritesOf(c, IA32_FIXED_CTR_CTRL)) = 1
           /\ Len(WritesOf(c, IA32_DEBUGCTL)) = 1

\* The ids of the used counters in the order the stop task visits them:
\* programmable 0..N-1, then fixed 0..M-1.
UsedIds(state) ==
    [k \in 1 .. state.num_used_programmable + state.num_used_fixed |->
       IF k <= state.num_used_programmable
       THEN state.programmable_ids[k - 1]
       ELSE state.fixed_ids[k - 1 - state.num_used_programmable]]

\* The offset just past the last record of |m|, or past the header.
EndOfRecords(m) ==
    IF m.records = <<>> THEN SizeofBufferHeader
    ELSE m.records[Len(m.records)].at + m.records[Len(m.records)].size

\* cpu c's buffer after the step holds what it held before, then |n| Value
\* records for the first n ids of |ids|, and capture_end is past the last.
StopAppended(c, ids, n) ==
    LET old == mem[c].records
        new == mem'[c].records
    IN  /\ Len(new) = Len(old) + n
        /\ SubSeq(new, 1, Len(old)) = old
        /\ \A k \in 1 .. n :
               /\ new[Len(old) + k].type = CPUPERF_RECORD_VALUE
               /\ new[Len(old) + k].event = ids[k]
        /\ mem'[c].capture_end = EndOfRecords(mem'[c])

\* C12, as the claim states it: a stop while tracing is active appends to
\* each cpu's buffer exactly one Value record per used counter, programmable
\* 0..N-1 then fixed 0..M-1, whatever PMIs were handled before, and
\* capture_end is the offset just past the last of them.
C12_StopRecordsAlways ==
    [][(perfmon_active /\ ApiOp("x86_ipm_stop")) =>
         \A c \in Cpus :
             StopAppended(c, UsedIds(perfmon_state),
                          Len(UsedIds(perfmon_state)))]_vars

\* How many of |n| Value records the stop task writes from |offset| in a
\* buffer of |size| bytes: it writes one whenever a record header still fits.
StopFits(offset, size, n) ==
    Cardinality({k \in 0 .. n - 1 :
                   offset + k * SizeofValueRecord + SizeofRecordHeader
                       <= size})

\* C12, amended: the stop appends the Value records of the used counters in
\* that order for as long as a record header fits before buffer_end; when
\* it has to leave one out it sets FULL; capture_end is the offset just past
\* the last record written.
C12_StopRecords ==
    [][(perfmon_active /\ ApiOp("x86_ipm_stop")) =>
         \A c \in Cpus :
             LET ids == UsedIds(perfmon_state)
                 data == perfmon_state.cpu_data[c]
                 n == StopFits(data.buffer_next - data.buffer_start,
                               data.buffer_size, Len(ids))
             IN  /\ StopAppended(c, ids, n)
                 /\ n < Len(ids) =>
                        mem'[c].flags \cap CPUPERF_BUFFER_FLAG_FULL # {}
                 /\ n = Len(ids) => mem'[c].flags = mem[c].flags]_vars

C12_Witness ==
    /\ ret.op = "x86_ipm_stop" /\ ret.status = ZX_OK /\ ~perfmon_active
    /\ perfmon_state.num_used_programmable = 1
    /\ perfmon_state.num_used_fixed = 1
    /\ \E c \in Cpus :
           LET r == mem[c].records
           IN  /\ Len(r) = 4
               /\ r[1].type = CPUPERF_RECORD_PC
               /\ r[3].type = CPUPERF_RECORD_VALUE
               /\ r[3].event = perfmon_state.programmable_ids[0]
               /\ r[4].type = CPUPERF_RECORD_VALUE
               /\ r[4].event = perfmon_state.fixed_ids[0]
               /\ mem[c].capture_end = r[4].at + r[4].size
               /\ mem[c].flags = {}

\* x modulo 2^width, limb by limb.
ModWidth(x, width) ==
    [k \in Limbs |->
       x[k] % (2 ^ Max2(0, Min2(LimbBits, width - LimbBits * (k - 1))))]

\* The k-th Value record a stop appends is for this counter: its initial
\* value and its width.
StopCounter(state, k) ==
    IF k <= state.num_used_programmable
    THEN [initial_value |-> state.programmable_initial_value[k - 1],
          width |-> perfmon_programmable_counter_width]
    ELSE [initial_value |->
              state.fixed_initial_value[k - 1 - state.num_used_programmable],
          width |-> perfmon_fixed_counter_width]

\* C13: the value a stop records for a used counter of width w with initial
\* value i that reads r <= MaxValue is (r - i) mod 2^w, for every accepted
\* width, 64 included.
C13_StopValue ==
    [][(perfmon_active /\ ApiOp("x86_ipm_stop")) =>
         \A c \in Cpus :
             \A k \in 1 .. Len(mem'[c].records) - Len(mem[c].records) :
                 LET rec == mem'[c].records[Len(mem[c].records) + k]
                     ctr == StopCounter(perfmon_state, k)
                 IN  rec.value =
                         ModWidth(U64Sub(script'.reading, ctr.initial_value),
                                  ctr.width)]_vars

\* A stop has recorded 0x15 for a 32-bit counter and for a 64-bit counter
\* that started 16 below their maximum and read 5.
C13_Witness ==
    /\ ret.op = "x86_ipm_stop" /\ ret.status = ZX_OK
    /\ script.reading = U64(5)
    /\ perfmon_programmable_counter_width = 32
    /\ perfmon_fixed_counter_width = 64
    /\ perfmon_state.staged
    /\ perfmon_state.programmable_initial_value[0] = <<65520, 65535, 0, 0>>
    /\ perfmon_state.fixed_initial_value[0] = <<65520, 65535, 65535, 65535>>
    /\ \E c \in Cpus :
           /\ Len(mem[c].records) = 2
           /\ mem[c].records[1].value = U64(21)
           /\ mem[c].records[2].value = U64(21)

\* A PMI is handled on the cpu the script names while tracing is active.
PmiHandled == perfmon_active /\ ApiOp("apic_pmi_interrupt_handler")

\* The handler finds room for one PC record per used counter.
PmiHasRoom ==
    LET state == perfmon_state
        data == state.cpu_data[script'.cpu]
    IN  data.buffer_next
            + (state.num_used_programmable + state.num_used_fixed)
              * SizeofPcRecord <= data.buffer_end

\* The records the step appended to cpu c's buffer.
Appended(c) ==
    SubSeq(mem'[c].records, Len(mem[c].records) + 1, Len(mem'[c].records))

\* The step rewrote |addr| on cpu c exactly once, to |value|.
Rearmed(c, addr, value) == WritesIn(hwlog'[c], addr) = <<value>>

\* C14, as the claim states it: a PMI handled with room and with the
\* overflow bit of used programmable counter k set appends exactly one Tick
\* or Pc record for k, rewrites PMC[k] to its initial value and writes
\* GLOBAL_STATUS_RESET with bit k, whatever flags k carries.
C14_PmiRoundTrip ==
    [][(PmiHandled /\ PmiHasRoom) =>
         LET c == script'.cpu
             state == perfmon_state
             new == Appended(c)
             reset == WritesIn(hwlog'[c], IA32_PERF_GLOBAL_STATUS_RESET)
         IN  \A k \in ProgSlots :
                 (k < state.num_used_programmable /\ k \in script'.status) =>
                     /\ Cardinality(
                            {j \in 1 .. Len(new) :
                               /\ new[j].event = state.programmable_ids[k]
                               /\ new[j].type \in {CPUPERF_RECORD_TICK,
                                                   CPUPERF_RECORD_PC}}) = 1
                     /\ Rearmed(c, IA32_PMC_FIRST + k,
                                state.programmable_initial_value[k])
                     /\ \E j \in 1 .. Len(reset) : k \in reset[j]]_vars

\* C16, as the claim states it: with a staged configuration whose
\* timebase_id names used counter a and whose used counter b carries the
\* TIMEBASE flag, a PMI with only a's overflow bit appends a Tick or Pc
\* record for a, then a Value record for b holding b's reading, and rearms
\* both to their initial values.
C16_Timebase ==
    [][(PmiHandled /\ PmiHasRoom /\ perfmon_state.staged) =>
         LET c == script'.cpu
             state == perfmon_state
             new == Appended(c)
         IN  \A a, b \in ProgSlots :
                 ( /\ a < state.num_used_programmable
                   /\ b < state.num_used_programmable
                   /\ config.timebase_id = state.programmable_ids[a]
                   /\ state.programmable_flags[b] \cap IPM_CONFIG_FLAG_TIMEBASE
                          # {}
                   /\ script'.status
                          = IA32_PERF_GLOBAL_STATUS_PMC_OVF_MASK(a) ) =>
                     /\ Len(new) = 2
                     /\ new[1].event = state.programmable_ids[a]
                     /\ new[1].type \in {CPUPERF_RECORD_TICK,
                                         CPUPERF_RECORD_PC}
                     /\ new[2].event = state.programmable_ids[b]
                     /\ new[2].type = CPUPERF_RECORD_VALUE
                     /\ new[2].value = script'.reading
                     /\ Rearmed(c, IA32_PMC_FIRST + a,
                                state.programmable_initial_value[a])
                     /\ Rearmed(c, IA32_PMC_FIRST + b,
                                state.programmable_initial_value[b])]_vars

\* C15: a PMI that finds no room for one PC record per used counter sets
\* FULL, appends nothing, leaves GLOBAL_CTRL at 0 and does not unmask the
\* PMI; and with FULL already set on the cpu a PMI appends no record and
\* does not move buffer_next.
C15_BufferFull ==
    [][PmiHandled =>
         LET c == script'.cpu
             full == mem[c].flags \cap CPUPERF_BUFFER_FLAG_FULL # {}
         IN  /\ ~PmiHasRoom =>
                    /\ mem'[c].flags \cap CPUPERF_BUFFER_FLAG_FULL # {}
                    /\ msr'[c][IA32_PERF_GLOBAL_CTRL] = {}
                    /\ \A k \in 1 .. Len(hwlog'[c]) :
                           hwlog'[c][k] # <<"apic_pmi_unmask">>
                    /\ pmi_masked'[c] = pmi_masked[c]
             /\ (full \/ ~PmiHasRoom) =>
                    /\ mem'[c].records = mem[c].records
                    /\ perfmon_state'.cpu_data[c].buffer_next
                           = perfmon_state.cpu_data[c].buffer_next]_vars

\* Three PMIs were handled on one cpu: the first appended a record for each
\* of three counters, the second found the buffer full, and the third came
\* with FULL set.
C15_Witness ==
    /\ ret.op = "apic_pmi_interrupt_handler" /\ perfmon_active
    /\ config = ThreeCounters
    /\ pmi_count = 3
    /\ mem[script.cpu].flags = CPUPERF_BUFFER_FLAG_FULL
    /\ Len(mem[script.cpu].records) = 3
    /\ mem[script.cpu].records[3].event = FixedPc.id
    /\ msr[script.cpu][IA32_PERF_GLOBAL_CTRL] = {}
    /\ \A c \in Cpus \ {script.cpu} : mem[c].records = <<>>

\* The last call was a stop that returned OK.
Stopped ==
    /\ ret.op = "x86_ipm_stop" /\ ret.status = ZX_OK
    /\ perfmon_state.present /\ ~perfmon_active

\* C17: a stop that follows a successful stop returns OK, appends nothing and
\* leaves the staged configuration and the buffers as they were; a fini that
\* follows a successful stop returns OK.
C17_StopTwice ==
    [][Stopped =>
         /\ ApiOp("x86_ipm_stop") =>
                /\ ret'.status = ZX_OK
                /\ mem' = mem
                /\ perfmon_state' = perfmon_state
                /\ ~perfmon_active'
         /\ ApiOp("x86_ipm_fini") => ret'.status = ZX_OK]_vars

\* A second stop has returned: it wrote no record, and the buffers hold the
\* records of the stop that ended the trace.
C17_Witness ==
    /\ Stopped /\ perfmon_state.staged
    /\ \A c \in Cpus :
           /\ mem[c].records # <<>>
           /\ mem[c].capture_end = EndOfRecords(mem[c])
           /\ hwlog[c] # <<>>
           /\ \A k \in 1 .. Len(hwlog[c]) : hwlog[c][k][1] # "record"

\* cpu c's buffer is not mapped and its start, end and next are null.
Unmapped(data) ==
    /\ ~data.buffer_mapping
    /\ data.buffer_start = NULL
    /\ data.buffer_end = NULL
    /\ data.buffer_next = NULL

\* C18: a start that gets past its state checks and fails to map a buffer
\* returns the mapping's error, leaves every cpu unmapped with null start,
\* end and next, runs no start task and leaves tracing inactive.
C18_MapFailure ==
    [][(x86_ipm_start_status = ZX_OK /\ ApiOp("x86_ipm_start")
        /\ ret'.status # ZX_OK) =>
         /\ ret'.status \in {ZX_ERR_NO_MEMORY, ZX_ERR_INVALID_ARGS}
         /\ ret'.status = ZX_ERR_INVALID_ARGS =>
                \E c \in Cpus : ~perfmon_state.cpu_data[c].buffer_vmo.present
         /\ \A c \in Cpus :
                /\ Unmapped(perfmon_state'.cpu_data[c])
                /\ perfmon_state'.cpu_data[c].buffer_vmo
                       = perfmon_state.cpu_data[c].buffer_vmo
                /\ hwlog'[c] = <<>>
         /\ msr' = msr /\ pmi_masked' = pmi_masked
         /\ ~perfmon_active']_vars

\* A start has failed on the last cpu after it had mapped cpu 0 and written
\* its header; no cpu is left mapped.
C18_Witness ==
    /\ ret.op = "x86_ipm_start" /\ ret.status = ZX_ERR_NO_MEMORY
    /\ ~perfmon_active
    /\ \A c \in Cpus :
           /\ perfmon_state.cpu_data[c].buffer_vmo.present
           /\ Unmapped(perfmon_state.cpu_data[c])
    /\ mem[0].version = CPUPERF_BUFFER_VERSION
    /\ mem[NumCpus - 1].version = 0

\* C19: on a Session that is not active, assign_buffer returns INVALID_ARGS
\* and changes no cpu's buffer when cpu >= NumCpus or the vmo is smaller
\* than a buffer header plus MaxCounters PC records; otherwise it returns OK
\* and replaces the buffer and size of the named cpu only.
C19_AssignBuffer ==
    [][(supports_perfmon /\ perfmon_state.present /\ ~perfmon_active
        /\ ApiOp("x86_ipm_assign_buffer")) =>
         LET cpu == script'.cpu
             size == script'.size
             old == perfmon_state.cpu_data
             new == perfmon_state'.cpu_data
         IN  IF \/ cpu >= NumCpus
                \/ size < SizeofBufferHeader
                            + CPUPERF_MAX_COUNTERS * SizeofPcRecord
             THEN ret'.status = ZX_ERR_INVALID_ARGS /\ new = old
             ELSE /\ ret'.status = ZX_OK
                  /\ new[cpu].buffer_vmo = Vmo(size)
                  /\ new[cpu].buffer_size = size
                  /\ \A c \in Cpus \ {cpu} : new[c] = old[c]]_vars

\* The last cpu has just been given a vmo of exactly the minimum size while
\* cpu 0 keeps the larger one it had.
C19_Witness ==
    /\ ret.op = "x86_ipm_assign_buffer" /\ ret.status = ZX_OK
    /\ script.cpu = NumCpus - 1 /\ script.size = min_size_needed
    /\ perfmon_state.cpu_data[NumCpus - 1].buffer_size = min_size_needed
    /\ perfmon_state.cpu_data[0].buffer_size = min_size_needed + 8

\* C20: after a successful start, the first or a later one, each cpu's
\* header has version 1, arch x86_64, no flags and capture_end =
\* sizeof(header), the buffer holds no record, and buffer_next is
\* buffer_start + sizeof(header).
C20_FreshBuffers ==
    (ret.op = "x86_ipm_start" /\ ret.status = ZX_OK) =>
        \A c \in Cpus :
            LET data == perfmon_state.cpu_data[c]
            IN  /\ mem[c].version = CPUPERF_BUFFER_VERSION
                /\ mem[c].arch = CPUPERF_BUFFER_ARCH_X86_64
                /\ mem[c].flags = {}
                /\ mem[c].capture_end = SizeofBufferHeader
                /\ mem[c].records = <<>>
                /\ data.buffer_start # NULL
                /\ data.buffer_next = data.buffer_start + SizeofBufferHeader

\* A start has succeeded where an earlier trace had left records or FULL.
C20_Witness ==
    /\ ret.op = "x86_ipm_start" /\ ret.status = ZX_OK
    /\ script.restart
    /\ perfmon_active

\* C21, as the claim states it: after a PMI handler invocation that appended
\* records to a cpu's buffer, the header's capture_end is the offset of
\* buffer_next from buffer_start.
C21_CaptureEndOnPmi ==
    [][(perfmon_active /\ ApiOp("apic_pmi_interrupt_handler")) =>
         \A c \in Cpus :
             Len(mem'[c].records) > Len(mem[c].records) =>
                 mem'[c].capture_end
                     = perfmon_state'.cpu_data[c].buffer_next
                       - perfmon_state'.cpu_data[c].buffer_start]_vars

\* The hardware of cpu c is reset: the control registers, the event selects
\* and the counters the hardware has are 0, and the PMI is masked.
HardwareReset(m, masked) ==
    /\ m[IA32_PERF_GLOBAL_CTRL] = {}
    /\ m[IA32_DEBUGCTL] = {}
    /\ m[IA32_FIXED_CTR_CTRL] = {}
    /\ \A i \in ProgSlots :
           i < perfmon_num_programmable_counters =>
               /\ m[IA32_PERFEVTSEL_FIRST + i] = {}
               /\ m[IA32_PMC_FIRST + i] = U64Zero
    /\ \A i \in FixedSlots :
           i < perfmon_num_fixed_counters => m[IA32_FIXED_CTR0 + i] = U64Zero
    /\ masked

\* C22: after a fini that returns OK no Session exists and every cpu's
\* hardware is reset; a fini that follows it returns OK and changes nothing.
C22_FiniResets ==
    [][ApiOp("x86_ipm_fini") =>
         /\ ret'.status = ZX_OK =>
                /\ ~perfmon_state'.present
                /\ ~perfmon_active'
                /\ \A c \in Cpus : HardwareReset(msr'[c], pmi_masked'[c])
         /\ (ret.op = "x86_ipm_fini" /\ ret.status = ZX_OK) =>
                /\ ret'.status = ZX_OK
                /\ msr' = msr /\ pmi_masked' = pmi_masked
                /\ perfmon_state' = perfmon_state /\ mem' = mem]_vars

\* A fini has reset the hardware after a trace in which PMIs were handled.
C22_Witness ==
    /\ ret.op = "x86_ipm_fini" /\ ret.status = ZX_OK
    /\ pmi_count > 0
    /\ ~perfmon_state.present
    /\ \A c \in Cpus : HardwareReset(msr[c], pmi_masked[c])

\* What the start task does on a cpu, in order, for the staged |state|.
StartOrder(state) ==
    LET nf == state.num_used_fixed
        np == state.num_used_programmable
    IN  [k \in 1 .. nf + 1 + 3 * np + 3 |->
           IF k <= nf
           THEN <<"write_msr", IA32_FIXED_CTR0 + state.fixed_hw_map[k - 1],
                  state.fixed_initial_value[k - 1]>>
           ELSE IF k = nf + 1
           THEN <<"write_msr", IA32_FIXED_CTR_CTRL, state.fixed_ctrl>>
           ELSE IF k <= nf + 1 + 3 * np
           THEN LET i == (k - nf - 2) \div 3
                    step == (k - nf - 2) % 3
                IN  IF step = 0
                    THEN <<"write_msr", IA32_PERFEVTSEL_FIRST + i, {}>>
                    ELSE IF step = 1
                    THEN <<"write_msr", IA32_PMC_FIRST + i,
                           state.programmable_initial_value[i]>>
                    ELSE <<"write_msr", IA32_PERFEVTSEL_FIRST + i,
                           state.events[i]>>
           ELSE IF k = nf + 3 * np + 2
           THEN <<"write_msr", IA32_DEBUGCTL, state.debug_ctrl>>
           ELSE IF k = nf + 3 * np + 3
           THEN <<"apic_pmi_unmask">>
           ELSE <<"write_msr", IA32_PERF_GLOBAL_CTRL, state.global_ctrl>>]

\* C25: on each cpu the start task writes the used fixed counters' initial
\* values, FIXED_CTR_CTRL, then per used programmable counter PERFEVTSEL <- 0,
\* PMC <- initial value, PERFEVTSEL <- events, then DEBUGCTL, unmasks the PMI
\* and writes GLOBAL_CTRL last.
C25_StartOrder ==
    (ret.op = "x86_ipm_start" /\ ret.status = ZX_OK) =>
        \A c \in Cpus : hwlog[c] = StartOrder(perfmon_state)

\* A start has programmed two programmable counters and a fixed one.
C25_Witness ==
    /\ ret.op = "x86_ipm_start" /\ ret.status = ZX_OK
    /\ perfmon_state.staged
    /\ perfmon_state.num_used_programmable = 2
    /\ perfmon_state.num_used_fixed = 1
    /\ \A c \in Cpus :
           /\ Len(hwlog[c]) = 11
           /\ hwlog[c][11]
                  = <<"write_msr", IA32_PERF_GLOBAL_CTRL, {0, 1, 32}>>
           /\ msr[c][IA32_PERF_GLOBAL_CTRL] = {0, 1, 32}

\* The positions in |log| of the entries of one of |kinds|.
Positions(log, kinds) == {k \in 1 .. Len(log) : log[k][1] \in kinds}

\* C26: on each cpu the stop task writes GLOBAL_CTRL <- 0 and masks the PMI
\* before it reads a counter or writes a record, and clears the overflow
\* indicators only after the last record and capture_end are written.
C26_StopOrder ==
    (ret.op = "x86_ipm_stop" /\ ret.status = ZX_OK) =>
        \A c \in Cpus :
            LET log == hwlog[c]
                clears == {k \in Positions(log, {"write_msr"}) :
                             log[k][2] = IA32_PERF_GLOBAL_OVF_CTRL}
                work == Positions(log, {"read_msr", "record", "capture_end"})
            IN  /\ Len(log) >= 3
                /\ log[1] = <<"write_msr", IA32_PERF_GLOBAL_CTRL, {}>>
                /\ log[2] = <<"apic_pmi_mask">>
                /\ clears = {Len(log)}
                /\ \A k \in work : 2 < k /\ k < Len(log)

\* A stop has read two counters, written their records and capture_end on
\* every cpu.
C26_Witness ==
    /\ ret.op = "x86_ipm_stop" /\ ret.status = ZX_OK
    /\ \A c \in Cpus :
           /\ Cardinality(Positions(hwlog[c], {"read_msr"})) = 2
           /\ Cardinality(Positions(hwlog[c], {"record"})) = 2
           /\ Cardinality(Positions(hwlog[c], {"capture_end"})) = 1

\* C27: a PMI handler that loads perfmon_active as false issues one EOI and
\* does nothing else: no MSR changes, the PMI mask, the Session and the
\* buffers stay as they were.
C27_InactivePmi ==
    [][(~perfmon_active /\ ApiOp("apic_pmi_interrupt_handler")) =>
         /\ \E c \in Cpus :
                hwlog' = [NoLog EXCEPT ![c] = <<<<"apic_issue_eoi">>>>]
         /\ msr' = msr
         /\ pmi_masked' = pmi_masked
         /\ mem' = mem
         /\ perfmon_state' = perfmon_state
         /\ perfmon_active' = perfmon_active]_vars

\* A PMI arrived after a trace with records was stopped.
C27_Witness ==
    /\ ret.op = "apic_pmi_interrupt_handler"
    /\ ~perfmon_active
    /\ perfmon_state.present
    /\ \E c \in Cpus :
           /\ hwlog[c] = <<<<"apic_issue_eoi">>>>
           /\ Len(mem[c].records) > 0
           /\ pmi_masked[c]
           /\ perfmon_state.cpu_data[c].buffer_start = NULL

\* C28: a PMI handled while tracing is active and the buffer has room ends
\* with the EOI, the PMI unmask and, as the handler's last access, the write
\* GLOBAL_CTRL <- global_ctrl; the handler's first MSR access writes 0 to
\* GLOBAL_CTRL and no other write of GLOBAL_CTRL lies between the two.
C28_PmiRestore ==
    [][(PmiHandled /\ PmiHasRoom) =>
         LET c == script'.cpu
             log == hwlog'[c]
             n == Len(log)
         IN  /\ n >= 4
             /\ log[n - 2] = <<"apic_issue_eoi">>
             /\ log[n - 1] = <<"apic_pmi_unmask">>
             /\ log[n] = <<"write_msr", IA32_PERF_GLOBAL_CTRL,
                           perfmon_state.global_ctrl>>
             /\ log[1] = <<"write_msr", IA32_PERF_GLOBAL_CTRL, {}>>
             /\ WritesIn(log, IA32_PERF_GLOBAL_CTRL)
                    = <<{}, perfmon_state.global_ctrl>>
             /\ msr'[c][IA32_PERF_GLOBAL_CTRL] = perfmon_state.global_ctrl
             /\ ~pmi_masked'[c]]_vars

\* A PMI was handled with room: records were written and rearming writes
\* made between the two writes of GLOBAL_CTRL, and the counters are on again.
C28_Witness ==
    /\ ret.op = "apic_pmi_interrupt_handler"
    /\ perfmon_active
    /\ LET log == hwlog[script.cpu]
       IN  /\ Cardinality(Positions(log, {"record"})) = 3
           /\ Cardinality(Positions(log, {"write_msr"})) >= 5
           /\ log[Len(log)] = <<"write_msr", IA32_PERF_GLOBAL_CTRL, {0, 1, 32}>>
           /\ msr[script.cpu][IA32_PERF_GLOBAL_CTRL] = {0, 1, 32}

\* The values the step wrote to GLOBAL_STATUS_RESET on the cpu of the PMI.
StatusResets == WritesIn(hwlog'[script'.cpu], IA32_PERF_GLOBAL_STATUS_RESET)

\* C29, as the claim states it: every PMI handled with room writes
\* GLOBAL_STATUS_RESET exactly once, with every bit of the status read,
\* every bit of the counter status bits, UNCORE_OVF and COND_CHGD, whether
\* or not a counter overflow bit was set in the status.
C29_StatusResetAlways ==
    [][(PmiHandled /\ PmiHasRoom) =>
         /\ Len(StatusResets) = 1
         /\ script'.status \subseteq StatusResets[1]
         /\ perfmon_counter_status_bits \subseteq StatusResets[1]
         /\ IA32_PERF_GLOBAL_STATUS_UNCORE_OVF_MASK \subseteq StatusResets[1]
         /\ IA32_PERF_GLOBAL_STATUS_COND_CHGD_MASK \subseteq StatusResets[1]]_vars

\* C29, amended: every PMI handled with room writes GLOBAL_STATUS_RESET
\* exactly once, with every bit of the status read, UNCORE_OVF and COND_CHGD;
\* the counter status bits are all included when the status had one of them
\* set, and none of them is included otherwise.
C29_StatusReset ==
    [][(PmiHandled /\ PmiHasRoom) =>
         /\ Len(StatusResets) = 1
         /\ script'.status \subseteq StatusResets[1]
         /\ IA32_PERF_GLOBAL_STATUS_UNCORE_OVF_MASK \subseteq StatusResets[1]
         /\ IA32_PERF_GLOBAL_STATUS_COND_CHGD_MASK \subseteq StatusResets[1]
         /\ IF script'.status \cap perfmon_counter_status_bits # {}
            THEN perfmon_counter_status_bits \subseteq StatusResets[1]
            ELSE perfmon_counter_status_bits \cap StatusResets[1] = {}]_vars

\* A PMI whose status had only the overflow bit of counter 0 cleared the
\* bits of all four counters and the two indicators.
C29_Witness ==
    /\ ret.op = "apic_pmi_interrupt_handler"
    /\ perfmon_active
    /\ script.status = {0}
    /\ WritesIn(hwlog[script.cpu], IA32_PERF_GLOBAL_STATUS_RESET)
           = <<{0, 1, 32, 33, 61, 63}>>

\* Every used fixed slot of |state| maps to a fixed counter the hardware has.
FixedMapInRange(state) ==
    \A i \in FixedSlots :
        i < state.num_used_fixed =>
            state.fixed_hw_map[i] < perfmon_num_fixed_counters

\* C30: whenever a start task, a handled PMI or a stop task uses the fixed
\* slots of the Session, every used slot i has fixed_hw_map[i] below the
\* number of fixed counters of the hardware.
C30_FixedMap ==
    [][(\/ ApiOp("x86_ipm_start") /\ ret'.status = ZX_OK
        \/ PmiHandled
        \/ ApiOp("x86_ipm_stop") /\ ret'.status = ZX_OK /\ perfmon_active) =>
         FixedMapInRange(perfmon_state)]_vars

\* C23: a PMI handler that loaded perfmon_active as true works on a Session
\* that exists and on a mapped buffer until it returns: while a cpu is in
\* such a handler the Session is present and the cpu's buffer is mapped, and
\* neither the unmapping of stop nor the destruction of fini happens while
\* any cpu is in such a handler.
C23_HandlerSeesSession ==
    [][/\ \A c \in script'.in_pmi :
              /\ perfmon_state'.present
              /\ perfmon_state'.cpu_data[c].buffer_mapping
              /\ perfmon_state'.cpu_data[c].buffer_start # NULL
       /\ (\/ ApiOp("x86_ipm_stop") /\ ret'.status = ZX_OK
           \/ ApiOp("x86_ipm_fini") /\ ret'.status = ZX_OK) =>
              script.in_pmi = {}]_vars

\* stop has cleared perfmon_active and run its task on every other cpu; the
\* last cpu is still inside a handler that loaded perfmon_active as true.
C23_Witness ==
    /\ script.op = "x86_ipm_stop"
    /\ ~perfmon_active
    /\ script.in_pmi = {NumCpus - 1}
    /\ script.pending = {NumCpus - 1}
    /\ perfmon_state.cpu_data[NumCpus - 1].buffer_mapping

\* C24: perfmon_active is false while a start, stop or reset task may run on
\* any cpu; it becomes true only in start, after the broadcast has run the
\* task on every cpu, and becomes false only in stop, before the broadcast
\* has run the task on any cpu.
C24_ActiveOutsideBroadcast ==
    [][/\ script'.op # "none" => ~perfmon_active'
       /\ ApiOp("task") => ~perfmon_active /\ ~perfmon_active'
       /\ (~perfmon_active /\ perfmon_active') =>
              /\ script.op = "x86_ipm_start" /\ script.pending = {}
              /\ script'.op = "none"
       /\ (perfmon_active /\ ~perfmon_active') =>
              /\ script.op = "none"
              /\ script'.op = "x86_ipm_stop" /\ script'.pending = Cpus]_vars

\* The broadcast of a stop that found tracing active is half done.
C24_Witness ==
    /\ script.op = "x86_ipm_stop"
    /\ ret.op = "task"
    /\ Cardinality(script.pending) = NumCpus - 1
    /\ pmi_count > 0
    /\ ~perfmon_active

\* Cpu c's buffer is mapped before and after the step and the step changed
\* one of |fields| of its cursor and header.
WroteCursor(c, fields) ==
    /\ BufferMapped(c)
    /\ perfmon_state'.present /\ perfmon_state'.cpu_data[c].buffer_mapping
    /\ \/ "buffer_next" \in fields
          /\ perfmon_state'.cpu_data[c].buffer_next
                 # perfmon_state.cpu_data[c].buffer_next
       \/ "flags" \in fields /\ mem'[c].flags # mem[c].flags
       \/ "capture_end" \in fields /\ mem'[c].capture_end # mem[c].capture_end

\* The step is the body of the PMI handler on cpu c.
HandlerOn(c) ==
    /\ ApiOp("apic_pmi_interrupt_handler")
    /\ c \in script.in_pmi /\ c \notin script'.in_pmi

\* The step is the stop task on cpu c.
StopTaskOn(c) ==
    /\ ApiOp("task") /\ script.op = "x86_ipm_stop"
    /\ c \in script.pending /\ c \notin script'.pending

C32_ProbeSupport ==
    booted =>
        (supports_perfmon <=>
             /\ script.leaf.present
             /\ script.leaf.version >= 4
             /\ script.leaf.num_programmable <= IPM_MAX_PROGRAMMABLE_COUNTERS
             /\ script.leaf.num_fixed <= IPM_MAX_FIXED_COUNTERS
             /\ script.leaf.programmable_width \in 16 .. 64
             /\ script.leaf.fixed_width \in 16 .. 64
             /\ script.leaf.ebx_length <= 7)

\* The probe accepted a leaf at the edge of every range: as many
\* programmable counters as the arrays hold and the narrowest width.
C32_Witness ==
    /\ booted /\ supports_perfmon
    /\ script.leaf.num_programmable = IPM_MAX_PROGRAMMABLE_COUNTERS
    /\ script.leaf.programmable_width = 16
    /\ script.leaf.fixed_width = 64
    /\ script.leaf.ebx_length = 3

\* C33: after a successful probe kGlobalCtrlWritableBits is the enable bits
\* of the present programmable and fixed counters, kFixedCounterCtrlWritableBits
\* the enable, any and pmi bits of the present fixed counters, and
\* perfmon_counter_status_bits the overflow bits of the present counters:
\* bit for bit, so no bit of an absent counter is in any of them.
C33_ProbeMasks ==
    (booted /\ supports_perfmon) =>
        LET progs == 0 .. (script.leaf.num_programmable - 1)
            fixeds == 0 .. (script.leaf.num_fixed - 1)
        IN  /\ kGlobalCtrlWritableBits = progs \cup {32 + i : i \in fixeds}
            /\ perfmon_counter_status_bits = progs \cup {32 + i : i \in fixeds}
            /\ kFixedCounterCtrlWritableBits
                   = UNION {{4 * i, 4 * i + 1, 4 * i + 2, 4 * i + 3} :
                              i \in fixeds}
            /\ Cardinality(kGlobalCtrlWritableBits)
                   = perfmon_num_programmable_counters
                     + perfmon_num_fixed_counters
            /\ Cardinality(perfmon_counter_status_bits)
                   = perfmon_num_programmable_counters
                     + perfmon_num_fixed_counters

\* The probe found one programmable counter and one fixed counter on a
\* machine whose arrays have room for more.
C33_Witness ==
    /\ booted /\ supports_perfmon
    /\ perfmon_num_programmable_counters = 1
    /\ perfmon_num_fixed_counters = 1
    /\ kGlobalCtrlWritableBits = {0, 32}
    /\ kFixedCounterCtrlWritableBits = {0, 1, 2, 3}
    /\ perfmon_counter_status_bits = {0, 32}

\* C34: after every successful stage_config the timebase id of the Session
\* is the timebase_id of the configuration that was staged.
C34_TimebaseStaged ==
    (ret.op = "x86_ipm_stage_config" /\ ret.status = ZX_OK) =>
        perfmon_state.timebase_id = config.timebase_id

\* Every used slot of |state| holds an event id.
UsedSlotsNamed(state) ==
    /\ \A i \in ProgSlots :
           i < state.num_used_programmable => state.programmable_ids[i] # 0
    /\ \A i \in FixedSlots :
           i < state.num_used_fixed => state.fixed_ids[i] # 0

\* C35: whenever a stop task collects the counters of a running trace or a
\* PMI is handled, every used programmable and fixed slot of the Session has
\* a nonzero id, and no assertion of the step fails.
C35_UsedIdsNonzero ==
    [][(\/ ApiOp("x86_ipm_stop") /\ ret'.status = ZX_OK /\ perfmon_active
        \/ PmiHandled) =>
         UsedSlotsNamed(perfmon_state) /\ ~assert_failed']_vars

\* The step is a PMI handler on cpu c that loaded perfmon_active as false
\* and returned after the EOI.
DiscardedOn(c) ==
    /\ ApiOp("apic_pmi_interrupt_handler")
    /\ c \notin script.in_pmi
    /\ hwlog'[c] = <<<<"apic_issue_eoi">>>>

\* C36: no PMI is discarded by the inactive early return on a cpu whose
\* counters are enabled: whenever a handler returns early on a cpu,
\* GLOBAL_CTRL of that cpu is 0.
C36_NoPmiDiscarded ==
    [][\A c \in Cpus :
           DiscardedOn(c) => msr[c][IA32_PERF_GLOBAL_CTRL] = {}]_vars

\* Tracing is off on every cpu: GLOBAL_CTRL is 0 and the PMI masked, no
\* handler is in progress and perfmon_active is false.
Quiet ==
    /\ ~perfmon_active
    /\ script.in_pmi = {}
    /\ \A c \in Cpus : msr[c][IA32_PERF_GLOBAL_CTRL] = {} /\ pmi_masked[c]

\* C37: when stop returns GLOBAL_CTRL is 0 and the PMI is masked on every
\* cpu, with no handler in progress, and every step that is not part of a
\* start keeps it so: a PMI delivered later, fini, and every other call.
C37_QuietAfterStop ==
    [][/\ (ApiOp("x86_ipm_stop") /\ ret'.status = ZX_OK) => Quiet'
       /\ (Quiet /\ script.op # "x86_ipm_start"
                 /\ script'.op # "x86_ipm_start") => Quiet']_vars

\* A PMI was delivered after the stop of a trace that had handled PMIs
\* returned: the handler left the counters off and the PMI masked.
C37_Witness ==
    /\ ret.op = "apic_pmi_interrupt_handler"
    /\ script.op = "none"
    /\ Quiet
    /\ perfmon_state.present
    /\ pmi_count > 0
    /\ hwlog[NumCpus - 1] = <<<<"apic_issue_eoi">>>>
    /\ ~perfmon_state.cpu_data[NumCpus - 1].buffer_mapping
    /\ Len(mem[NumCpus - 1].records) > 0

\* C38: a PMI handled with room for one PC record per used counter appends
\* at most one record per used counter, none larger than a PC record, moves
\* buffer_next by at most that many PC records, to the end of the last
\* record appended, and leaves it at or below buffer_end.
C38_PmiBounded ==
    [][(PmiHandled /\ PmiHasRoom) =>
         LET c == script'.cpu
             state == perfmon_state
             n == state.num_used_programmable + state.num_used_fixed
             before == state.cpu_data[c].buffer_next
             after == perfmon_state'.cpu_data[c].buffer_next
             new == Appended(c)
         IN  /\ Len(new) <= n
             /\ \A k \in 1 .. Len(new) : new[k].size <= SizeofPcRecord
             /\ before <= after
             /\ after - before <= n * SizeofPcRecord
             /\ new # <<>> =>
                    after - state.cpu_data[c].buffer_start
                        = new[Len(new)].at + new[Len(new)].size
             /\ after <= perfmon_state'.cpu_data[c].buffer_end]_vars

\* A PMI with the overflow bits of all three used counters set appended
\* three records, two of them PC records, ending below buffer_end.
C38_Witness ==
    /\ ret.op = "apic_pmi_interrupt_handler" /\ perfmon_active
    /\ config = ThreeCounters
    /\ script.status = {0, 1, 32}
    /\ pmi_count = 1
    /\ Len(mem[script.cpu].records) = 3
    /\ Cardinality({k \in 1 .. 3 :
                      mem[script.cpu].records[k].size = SizeofPcRecord}) = 2
    /\ perfmon_state.cpu_data[script.cpu].buffer_next
           < perfmon_state.cpu_data[script.cpu].buffer_end

\* Threads t and u made concurrent calls of |op| that both returned: t
\* called first, u while t's call was in progress.
ConcurrentCalls(t, u, op) ==
    /\ t # u
    /\ script.calls[t].op = op /\ script.calls[u].op = op
    /\ script.calls[t].phase = "returned"
    /\ script.calls[u].phase = "returned"
    /\ ~script.calls[t].overlap /\ script.calls[u].overlap

\* The statuses the two calls returned.
Statuses(t, u) == <<script.calls[t].status, script.calls[u].status>>

\* C39, as the claim states it: of two concurrent calls of start on a
\* CONFIGURED Session exactly one returns OK and the other BAD_STATE, and
\* of two concurrent calls of init from IDLE exactly one creates a Session.
C39_ExactlyOne ==
    \A t, u \in Threads :
        /\ (ConcurrentCalls(t, u, "x86_ipm_start")
                /\ script.calls[t].configured) =>
               Statuses(t, u) \in {<<ZX_OK, ZX_ERR_BAD_STATE>>,
                                   <<ZX_ERR_BAD_STATE, ZX_OK>>}
        /\ (ConcurrentCalls(t, u, "x86_ipm_init") /\ script.calls[t].idle) =>
               /\ perfmon_state.present
               /\ ZX_OK \in {script.calls[t].status, script.calls[u].status}
               /\ script.calls[t].status # script.calls[u].status

\* What two calls that ran one after the other under the lock can return:
\* OK then BAD_STATE, or NO_MEMORY from the first and OK or NO_MEMORY from
\* the second, in either order of the threads.
Serialized(pair) ==
    \/ pair \in {<<ZX_OK, ZX_ERR_BAD_STATE>>, <<ZX_ERR_BAD_STATE, ZX_OK>>}
    \/ pair \in {<<ZX_ERR_NO_MEMORY, ZX_OK>>, <<ZX_OK, ZX_ERR_NO_MEMORY>>}
    \/ pair = <<ZX_ERR_NO_MEMORY, ZX_ERR_NO_MEMORY>>

\* C39, amended: at most one thread runs under perfmon_lock; of two
\* concurrent calls of start on a CONFIGURED Session at most one returns OK,
\* the other returns BAD_STATE when one did and each may return NO_MEMORY
\* instead, tracing is on exactly when one returned OK, and a start
\* broadcast begins only with tracing off, for the one thread under the
\* lock; of two concurrent calls of init from IDLE at most one returns OK,
\* and a Session exists exactly when one did.
C39_OneAtATime ==
    [][/\ Cardinality({t \in Threads :
                         script'.calls[t].phase = "running"}) <= 1
       /\ \A t, u \in Threads :
              /\ (ConcurrentCalls(t, u, "x86_ipm_start")
                      /\ script.calls[t].configured) =>
                     /\ Serialized(Statuses(t, u))
                     /\ perfmon_active
                            <=> ZX_OK \in {script.calls[t].status,
                                           script.calls[u].status}
              /\ (ConcurrentCalls(t, u, "x86_ipm_init")
                      /\ script.calls[t].idle) =>
                     /\ Serialized(Statuses(t, u))
                     /\ perfmon_state.present
                            <=> ZX_OK \in {script.calls[t].status,
                                           script.calls[u].status}
       /\ (ApiOp("mp_sync_exec") /\ script'.op = "x86_ipm_start") =>
              /\ ~perfmon_active
              /\ \A t \in Threads :
                     script.calls[t].op = "x86_ipm_start" =>
                         ~(script.calls[t].phase = "returned"
                               /\ script.calls[t].status = ZX_OK)]_vars

\* Two threads called start concurrently on a CONFIGURED Session: the one
\* that took the lock first returned OK, the other BAD_STATE, and tracing is
\* on with every cpu's counters enabled.
C39_Witness ==
    \E t, u \in Threads :
        /\ ConcurrentCalls(t, u, "x86_ipm_start")
        /\ script.calls[t].configured /\ script.calls[u].configured
        /\ script.calls[t].status = ZX_ERR_BAD_STATE
        /\ script.calls[u].status = ZX_OK
        /\ perfmon_active
        /\ \A c \in Cpus : msr[c][IA32_PERF_GLOBAL_CTRL] # {}

\* C40: the Session a successful init creates carries nothing over: no
\* counter is used, the staged control values, the timebase id and every
\* id, initial-value, flag, event and hardware-map slot are 0, and no cpu
\* has a buffer assigned or mapped.
C40_FreshSession ==
    [][(ApiOp("x86_ipm_init") /\ ret'.status = ZX_OK) =>
         LET state == perfmon_state'
         IN  /\ ~perfmon_state.present /\ state.present
             /\ state.num_used_fixed = 0 /\ state.num_used_programmable = 0
             /\ state.global_ctrl = {} /\ state.fixed_ctrl = {}
             /\ state.debug_ctrl = {}
             /\ state.timebase_id = CPUPERF_EVENT_ID_NONE
             /\ ~state.staged
             /\ \A i \in FixedSlots :
                    /\ state.fixed_ids[i] = 0
                    /\ state.fixed_initial_value[i] = U64Zero
                    /\ state.fixed_flags[i] = {}
                    /\ state.fixed_hw_map[i] = 0
             /\ \A i \in ProgSlots :
                    /\ state.programmable_ids[i] = 0
                    /\ state.programmable_initial_value[i] = U64Zero
                    /\ state.programmable_flags[i] = {}
                    /\ state.events[i] = {}
             /\ \A c \in Cpus :
                    /\ ~state.cpu_data[c].buffer_vmo.present
                    /\ state.cpu_data[c].buffer_size = 0
                    /\ ~state.cpu_data[c].buffer_mapping
                    /\ state.cpu_data[c].buffer_start = NULL
                    /\ state.cpu_data[c].buffer_end = NULL
                    /\ state.cpu_data[c].buffer_next = NULL
                    /\ mem'[c].records = <<>>]_vars

\* init returned OK after a trace that handled a PMI was stopped and its
\* Session destroyed by fini: the Session is there with no counter in use.
C40_Witness ==
    /\ ret.op = "x86_ipm_init" /\ ret.status = ZX_OK
    /\ pmi_count > 0
    /\ ~perfmon_active
    /\ perfmon_state.present
    /\ perfmon_state.num_used_programmable = 0
    /\ \A c \in Cpus : ~perfmon_state.cpu_data[c].buffer_vmo.present

====
